---- MODULE Spec2Model ----
(***************************************************************************)
(* Model of the Home Assistant add-ons of this repository:                 *)
(*   - the Finn.no listing scraper, revision bobil_v2.py (paginated fetch, *)
(*     detail enrichment behind a semaphore, update_database),             *)
(*   - its older revision bobil.py (unbounded detail fan-out,              *)
(*     compare_prices_and_save / log_price_change / update_bobil_table),   *)
(*   - the price normalisation both revisions share.                       *)
(* Python strings are sequences of one-character strings; Python ints are  *)
(* canonical decimal digit sequences (arbitrary precision, as in Python).  *)
(***************************************************************************)
EXTENDS Integers, Sequences, FiniteSets, TLC

(***************************************************************************)
(* Strings and arbitrary-precision integers                                *)
(***************************************************************************)

DigitChars == <<"0", "1", "2", "3", "4", "5", "6", "7", "8", "9">>

Digits == {DigitChars[i] : i \in 1..10}

DigitVal(c) == (CHOOSE i \in 1..10 : DigitChars[i] = c) - 1

Chr(v) == DigitChars[v + 1]

\* Python None (also the result of a caught exception that returns None).
NoneVal == <<"None">>

\* str(None)
StrNone == <<"N", "o", "n", "e">>

\* str(x) for a value that is None or already a character sequence.
Str(x) == IF x = NoneVal THEN StrNone ELSE x

\* re.sub(r"[^\d]", "", s)
StripNonDigits(s) == SelectSeq(s, LAMBDA c : c \in Digits)

RECURSIVE DropLeadingZeros(_)
DropLeadingZeros(ds) ==
    IF Len(ds) > 1 /\ ds[1] = "0" THEN DropLeadingZeros(Tail(ds)) ELSE ds

\* int(ds) for a non-empty digit string: the canonical digit sequence.
IntOfDigits(ds) == DropLeadingZeros(ds)

IsInt(x) == /\ x # NoneVal
            /\ Len(x) >= 1
            /\ \A i \in 1..Len(x) : x[i] \in Digits
            /\ (Len(x) > 1 => x[1] # "0")

\* a < b for canonical digit sequences
RECURSIVE LexLess(_, _)
LexLess(a, b) ==
    IF a = <<>> THEN FALSE
    ELSE IF DigitVal(a[1]) # DigitVal(b[1]) THEN DigitVal(a[1]) < DigitVal(b[1])
    ELSE LexLess(Tail(a), Tail(b))

IntLess(a, b) == \/ Len(a) < Len(b)
                 \/ Len(a) = Len(b) /\ LexLess(a, b)

IsOdd(a) == DigitVal(a[Len(a)]) % 2 = 1

RECURSIVE HalveFrom(_, _, _)
HalveFrom(a, i, carry) ==
    IF i > Len(a) THEN <<>>
    ELSE LET v == (carry * 10) + DigitVal(a[i])
         IN  <<Chr(v \div 2)>> \o HalveFrom(a, i + 1, v % 2)

\* a // 2
Halve(a) == DropLeadingZeros(HalveFrom(a, 1, 0))

\* a * 2: digit i receives a carry exactly when digit i+1 is at least 5
Double(a) ==
    LET n == Len(a)
        carryInto(i) == IF i < n /\ DigitVal(a[i + 1]) >= 5 THEN 1 ELSE 0
        body == [i \in 1..n |-> Chr(((2 * DigitVal(a[i])) % 10) + carryInto(i))]
    IN  IF DigitVal(a[1]) >= 5 THEN <<"1">> \o body ELSE body

\* a + 1
Inc(a) ==
    LET n == Len(a)
        nonNine == {i \in 1..n : a[i] # "9"}
    IN  IF nonNine = {} THEN <<"1">> \o [i \in 1..n |-> "0"]
        ELSE LET k == CHOOSE i \in nonNine : \A j \in nonNine : j <= i
             IN  [i \in 1..n |-> IF i < k THEN a[i]
                                 ELSE IF i = k THEN Chr(DigitVal(a[i]) + 1)
                                 ELSE "0"]

RECURSIVE DoubleTimes(_, _)
DoubleTimes(a, k) == IF k = 0 THEN a ELSE DoubleTimes(Double(a), k - 1)

\* 2^53: an IEEE-754 double holds 53 significant bits.
TwoPow53 == <<"9", "0", "0", "7", "1", "9", "9", "2", "5", "4", "7", "4", "0", "9", "9", "2">>

\* float(n) for a Python int n, as the integer it equals: n rounded to 53
\* significant bits, ties to even.  q is n shifted right k times, half the
\* last bit shifted out, sticky whether any earlier shifted-out bit was 1.
RECURSIVE FloatShift(_, _, _, _)
FloatShift(q, k, half, sticky) ==
    IF ~IntLess(q, TwoPow53)
    THEN FloatShift(Halve(q), k + 1, IsOdd(q), sticky \/ half)
    ELSE LET r == IF half /\ (sticky \/ IsOdd(q)) THEN Inc(q) ELSE q
         IN  DoubleTimes(r, k)

FloatOfInt(n) == FloatShift(n, 0, FALSE, FALSE)

\* Thousands grouping with "," replaced by " ":  f"{x:,}".replace(",", " ")
RECURSIVE GroupThousands(_)
GroupThousands(ds) ==
    IF Len(ds) <= 3 THEN ds
    ELSE GroupThousands(SubSeq(ds, 1, Len(ds) - 3)) \o <<" ">>
            \o SubSeq(ds, Len(ds) - 2, Len(ds))

KrSuffix == <<" ", "k", "r">>

\* f"{price_as_int:,.0f} kr".replace(",", " "): the "f" presentation type
\* converts the int to a float before printing it with no decimals.
FormatKr(n) == GroupThousands(FloatOfInt(n)) \o KrSuffix

\* normalize_and_format_price(price, output_format); an empty digit string
\* makes int() raise, which the function catches and turns into None.
normalize_and_format_price(price, output_format) ==
    LET normalized == StripNonDigits(Str(price))
    IN  IF normalized = <<>> THEN NoneVal
        ELSE LET price_as_int == IntOfDigits(normalized)
             IN  IF output_format THEN FormatKr(price_as_int) ELSE price_as_int


(***************************************************************************)
(* Bounds of the model                                                     *)
(***************************************************************************)

\* Listing ids (Finnkode) are 1..MaxId.
MaxId == 2

\* Largest number of docs on one page of the search API.
MaxDocs == 2

\* Largest metadata.result_size.match_count the API reports.
MaxMatches == 3

\* Longest price string drawn as an input of the price normalisation.
MaxPriceLen == 3

\* Largest number of ads handed to update_database / compare_prices_and_save.
MaxAds == 2

\* Largest number of listings whose detail pages are fetched in one batch.
MaxFanout == 6

\* fetch_and_combine_data(session, ads, max_concurrent=5)
MaxConcurrent == 5

\* Largest number of pieces a PDF's file name is put together from.
MaxPieces == 3

\* Largest number of rows of the table read from page 1 of a PDF.
MaxRows == 6

\* How far the lengths of the extra texts go beyond 0 and around MAX_INFO_LENGTH.
MaxOver == 3

\* get_kjopsscore leaves out listings older than this many days
SkipAfterDays == 60

\* MAX_INFO_LENGTH = 500
MAX_INFO_LENGTH == 500

\* Largest number of PDFs processed in one behaviour of the info-file model.
MaxUploads == 3

\* Largest price (current or recorded) of a row of the buy-score query.
MaxKroner == 4

\* Largest number of recorded price changes of a row of the buy-score query.
MaxChanges == 2

\* Largest small number of days since the listing's date.
MaxDays == 3

\* Number of request threads POST /scrape can start (the scheduler thread is
\* one more).
MaxRequests == 1

\* Largest number of calls of run_scraper_background in one behaviour.
MaxCalls == 2

\* Largest number of requests to POST /upload and POST /process in one
\* behaviour.
MaxPosts == 2

\* Largest number of keys in the JSON object posted to /webhook.
MaxKeys == 2

(***************************************************************************)
(* State                                                                   *)
(***************************************************************************)

VARIABLES
    \* normalize_and_format_price round trip
    ppc, price_in, price_fmt, price_out,
    \* fetch_all_pages (bobil_v2.py)
    fpc, offset, total_matches, page_size, all_ads, seen_ids,
    inflight, requested, failedAt, emptyAt, rawFirst, extFirst, dupDropped,
    \* the database: committed tables, and their contents before the run
    bobil, prisendringer, bobil0, pris0,
    \* update_database (bobil_v2.py)
    dpc, ads, dry_run, idx, txn, nye_annonser, endrede_annonser,
    uendrede_annonser, verdicts, sql_writes, sql_commits, aborted,
    \* fetch_and_combine_data (bobil_v2.py)
    epc, e_ads, e_task, e_outcome, semaphore,
    \* main of bobil.py: fetch_and_combine_data, compare_prices_and_save
    lpc, l_ads, l_task, l_outcome, existing_ads, l_idx,
    \* main (bobil_v2.py): where the run stands
    mpc,
    \* webhook (Webhook_external/run.py): one request
    wpc, w_data, w_idx, w_responses, w_sent, w_reply,
    \* extract_week_number (Ukenytt_Frida/ukenytt.py)
    kpc, wk_name, wk_text, wk_tables, wk_result,
    \* parse_pdf (Ukenytt_Frida/ukenytt.py)
    qpc, df, output,
    \* update_home_assistant_sensor (Ukenytt_Frida/ukenytt.py): the info attribute
    upc, extra_text, info, info_full_available,
    \* the info side file (Ukenytt_Frida/ukenytt.py)
    ipc, info_file, sensor_info, last_extra, uploads, info_reply, page_info,
    \* startup_process (Ukenytt_Frida/ukenytt.py)
    spc, s_idx, state_file, state_file0, pdf_file, handled, restore_status, s_pushed,
    \* get_kjopsscore (Finn_no_Bobil/bobil_web.py)
    gpc, g_row, g_result,
    \* run_scraper_background, trigger_scrape, schedule_scraper (Finn_no_Bobil/bobil_web.py)
    tpc, scraper_status, t_outcome, calls, successes, raced, api_reply,
    \* upload_pdf, process_existing, process_pdf_for_child (Ukenytt_Frida/ukenytt.py)
    posts, api_key, pdf_store, name_store, info_store, sensor_store, last_pushed, ha_requests, u_reply, u_kind, u_child

priceVars == <<ppc, price_in, price_fmt, price_out>>

fetchVars == <<fpc, offset, total_matches, page_size, all_ads, seen_ids,
               inflight, requested, failedAt, emptyAt, rawFirst, extFirst, dupDropped>>

tableVars == <<bobil, prisendringer, bobil0, pris0>>

dbVars == <<dpc, ads, dry_run, idx, txn, nye_annonser, endrede_annonser,
            uendrede_annonser, verdicts, sql_writes, sql_commits, aborted>>

enrichVars == <<epc, e_ads, e_task, e_outcome, semaphore>>

legacyVars == <<lpc, l_ads, l_task, l_outcome, existing_ads, l_idx>>

webhookVars == <<wpc, w_data, w_idx, w_responses, w_sent, w_reply>>

\* the scraper's variables
bobilVars == <<priceVars, fetchVars, tableVars, dbVars, enrichVars, legacyVars, mpc>>

\* the other add-ons' variables
weekVars == <<kpc, wk_name, wk_text, wk_tables, wk_result>>

parseVars == <<qpc, df, output>>

sensorVars == <<upc, extra_text, info, info_full_available>>

infoVars == <<ipc, info_file, sensor_info, last_extra, uploads, info_reply, page_info>>

startVars == <<spc, s_idx, state_file, state_file0, pdf_file, handled, restore_status, s_pushed>>

scoreVars == <<gpc, g_row, g_result>>

scraperVars == <<tpc, scraper_status, t_outcome, calls, successes, raced, api_reply>>

uploadVars == <<posts, api_key, pdf_store, name_store, info_store, sensor_store, last_pushed, ha_requests, u_reply, u_kind, u_child>>

addonVars == <<webhookVars, weekVars, parseVars, sensorVars, infoVars, startVars, scoreVars, scraperVars, uploadVars>>

vars == <<bobilVars, addonVars>>

\* what the actions of one add-on leave alone
notWebhook == <<bobilVars, weekVars, parseVars, sensorVars, infoVars, startVars, scoreVars, scraperVars, uploadVars>>

notWeek == <<bobilVars, webhookVars, parseVars, sensorVars, infoVars, startVars, scoreVars, scraperVars, uploadVars>>

notParse == <<bobilVars, webhookVars, weekVars, sensorVars, infoVars, startVars, scoreVars, scraperVars, uploadVars>>

notSensor == <<bobilVars, webhookVars, weekVars, parseVars, infoVars, startVars, scoreVars, scraperVars, uploadVars>>

notInfo == <<bobilVars, webhookVars, weekVars, parseVars, sensorVars, startVars, scoreVars, scraperVars, uploadVars>>

notStartup == <<bobilVars, webhookVars, weekVars, parseVars, sensorVars, infoVars, scoreVars, scraperVars, uploadVars>>

notScore == <<bobilVars, webhookVars, weekVars, parseVars, sensorVars, infoVars, startVars, scraperVars, uploadVars>>

notScraper == <<bobilVars, webhookVars, weekVars, parseVars, sensorVars, infoVars, startVars, scoreVars, uploadVars>>

notUpload == <<bobilVars, webhookVars, weekVars, parseVars, sensorVars, infoVars, startVars, scoreVars, scraperVars>>

\* what the actions of one component leave alone
notPrice == <<fetchVars, tableVars, dbVars, enrichVars, legacyVars, mpc, addonVars>>

notFetch == <<priceVars, tableVars, dbVars, enrichVars, legacyVars, mpc, addonVars>>

notDb == <<priceVars, fetchVars, enrichVars, legacyVars, mpc, addonVars>>

notEnrich == <<priceVars, fetchVars, tableVars, dbVars, legacyVars, mpc, addonVars>>

notLegacy == <<priceVars, fetchVars, dbVars, enrichVars, mpc, addonVars>>

(***************************************************************************)
(* Price normalisation round trip                                          *)
(***************************************************************************)

PriceAlphabet == {"0", "1", "5", " ", "k"}

\* Integers around 2^53, where a double stops holding every integer.
BigPrices == {TwoPow53, Inc(TwoPow53), Inc(Inc(TwoPow53)), Inc(Inc(Inc(TwoPow53)))}

PriceInputs ==
    UNION {[1..n -> PriceAlphabet] : n \in 0..MaxPriceLen} \cup BigPrices \cup {NoneVal}

PriceIdle == /\ ppc = "off"
             /\ price_in = <<>>
             /\ price_fmt = <<>>
             /\ price_out = <<>>

PriceInit == /\ ppc = "start"
             /\ price_in \in PriceInputs
             /\ price_fmt = <<>>
             /\ price_out = <<>>

\* normalize_and_format_price(price) with output_format=True
FormatPrice ==
    /\ ppc = "start"
    /\ price_fmt' = normalize_and_format_price(price_in, TRUE)
    /\ ppc' = "formatted"
    /\ UNCHANGED <<price_in, price_out, notPrice>>

\* normalize_and_format_price(formatted, output_format=False)
NormalizePrice ==
    /\ ppc = "formatted"
    /\ price_out' = normalize_and_format_price(price_fmt, FALSE)
    /\ ppc' = "normalized"
    /\ UNCHANGED <<price_in, price_fmt, notPrice>>

PriceNext == FormatPrice \/ NormalizePrice

(***************************************************************************)
(* fetch_all_pages and extract_info_from_json (bobil_v2.py)                *)
(***************************************************************************)

\* One doc of a search response.  id: -1 the key is absent, 0 present but
\* empty, else the Finnkode.  url: canonical_url absent, empty or present.
\* heading: the key is present.  sound: price and timestamp have the
\* expected types, so building the ad dict raises nothing.
AllDocs == [id : -1..MaxId, url : {"absent", "empty", "ok"},
            heading : BOOLEAN, sound : BOOLEAN]

Defects(d) == (IF d.id <= 0 THEN 1 ELSE 0) + (IF d.url # "ok" THEN 1 ELSE 0)
              + (IF d.heading THEN 0 ELSE 1) + (IF d.sound THEN 0 ELSE 1)

\* The docs drawn as inputs: well-formed, or with a single defect; a doc
\* without a usable url is dropped and a doc that raises empties its page
\* whatever the id, so one id stands for all.
Docs == {d \in AllDocs : Defects(d) <= 1 /\ ((d.url # "ok" \/ ~d.sound) => d.id = 1)}

Pages == UNION {[1..n -> Docs] : n \in 0..MaxDocs}

\* What fetch_json returns: None, or the decoded dict with its docs.
NoData == [ok |-> FALSE, docs |-> <<>>, match_count |-> 0]

Response(docs, mc) == [ok |-> TRUE, docs |-> docs, match_count |-> mc]

HasExpectedKeys(d) == d.id # -1 /\ d.url # "absent" /\ d.heading

Skipped(d) == d.id <= 0 \/ d.url # "ok"

\* extract_info_from_json: [] for no docs, [] when the first doc lacks an
\* expected key, [] when building any kept ad raises; else the ads of the
\* docs that have a non-empty id and url, in order.
RECURSIVE ExtractLoop(_, _)
ExtractLoop(rest, acc) ==
    IF rest = <<>> THEN [raised |-> FALSE, out |-> acc]
    ELSE LET ad == Head(rest)
         IN  IF Skipped(ad) THEN ExtractLoop(Tail(rest), acc)
             ELSE IF ~ad.sound THEN [raised |-> TRUE, out |-> acc]
             ELSE ExtractLoop(Tail(rest), Append(acc, [Finnkode |-> ad.id]))

extract_info_from_json(docs) ==
    IF docs = <<>> THEN <<>>
    ELSE IF ~HasExpectedKeys(docs[1]) THEN <<>>
    ELSE LET r == ExtractLoop(docs, <<>>)
         IN  IF r.raised THEN <<>> ELSE r.out

\* The loop without its seen_ids test: every extracted ad is appended.
AddUnseenNoDedup(page_ads, acc, seen) ==
    [ads |-> acc \o page_ads,
     seen |-> seen \cup {page_ads[i].Finnkode : i \in 1..Len(page_ads)}]

\* The dedup loop of fetch_all_pages over one page's extracted ads.
RECURSIVE AddUnseen(_, _, _)
AddUnseen(page_ads, acc, seen) ==
    IF page_ads = <<>> THEN [ads |-> acc, seen |-> seen]
    ELSE LET ad == Head(page_ads)
         IN  IF ad.Finnkode \notin seen
             THEN AddUnseen(Tail(page_ads), Append(acc, ad), seen \cup {ad.Finnkode})
             ELSE AddUnseen(Tail(page_ads), acc, seen)

\* ---- bookkeeping of what the API showed (not program state) ----

\* ids of the docs of a page that carry a non-empty id and url
RawIds(docs) ==
    LET keep == SelectSeq(docs, LAMBDA d : d.id >= 1 /\ d.url = "ok")
    IN  [i \in 1..Len(keep) |-> keep[i].id]

\* the page passes extraction: first doc has the keys and no kept doc is unsound
Extractable(docs) ==
    /\ docs # <<>>
    /\ HasExpectedKeys(docs[1])
    /\ \A i \in 1..Len(docs) : (docs[i].id >= 1 /\ docs[i].url = "ok") => docs[i].sound

\* s without the repeats: position i stays iff no earlier position holds s[i]
FirstAppearance(s) ==
    LET keepIdx == {i \in 1..Len(s) : \A j \in 1..(i - 1) : s[j] # s[i]}
        rank(i) == Cardinality({j \in keepIdx : j <= i})
    IN  [k \in 1..Cardinality(keepIdx) |-> s[CHOOSE i \in keepIdx : rank(i) = k]]

FetchIdle ==
    /\ fpc = "off"
    /\ offset = 0
    /\ total_matches = 0
    /\ page_size = 0
    /\ all_ads = <<>>
    /\ seen_ids = {}
    /\ inflight = 0
    /\ requested = <<>>
    /\ failedAt = {}
    /\ emptyAt = {}
    /\ rawFirst = <<>>
    /\ extFirst = <<>>
    /\ dupDropped = FALSE

FetchInit ==
    /\ fpc = "first_request"
    /\ offset = 0
    /\ total_matches = 0
    /\ page_size = 0
    /\ all_ads = <<>>
    /\ seen_ids = {}
    /\ inflight = 0
    /\ requested = <<>>
    /\ failedAt = {}
    /\ emptyAt = {}
    /\ rawFirst = <<>>
    /\ extFirst = <<>>
    /\ dupDropped = FALSE

\* ghost update for a page received at the current offset
Observe(resp) ==
    /\ failedAt' = IF resp.ok THEN failedAt ELSE failedAt \cup {offset}
    /\ emptyAt' = IF resp.ok /\ resp.docs = <<>> THEN emptyAt \cup {offset} ELSE emptyAt
    /\ rawFirst' = IF resp.ok THEN FirstAppearance(rawFirst \o RawIds(resp.docs))
                   ELSE rawFirst
    /\ extFirst' = IF resp.ok /\ Extractable(resp.docs)
                   THEN FirstAppearance(extFirst \o RawIds(resp.docs))
                   ELSE extFirst
    /\ dupDropped' = (\/ dupDropped
                      \/ /\ resp.ok /\ Extractable(resp.docs)
                         /\ Len(FirstAppearance(extFirst \o RawIds(resp.docs)))
                                < Len(extFirst) + Len(RawIds(resp.docs)))

\* initial_data = await fetch_json(session, f"{base_url}&offset={offset}"): the call
RequestFirst ==
    /\ fpc = "first_request"
    /\ requested' = Append(requested, offset)
    /\ inflight' = inflight + 1
    /\ fpc' = "first_wait"
    /\ UNCHANGED <<offset, total_matches, page_size, all_ads, seen_ids,
                   failedAt, emptyAt, rawFirst, extFirst, dupDropped, notFetch>>

\* fetch_all_pages from the first response to the start of the page loop
FirstPage(resp) ==
    /\ inflight' = inflight - 1
    /\ Observe(resp)
    /\ IF ~resp.ok
       THEN \* "Kunne ikke hente første side": return []
            /\ fpc' = "done"
            /\ UNCHANGED <<offset, total_matches, page_size, all_ads, seen_ids>>
       ELSE IF resp.match_count = 0 /\ resp.docs = <<>>
       THEN \* "Ingen annonser funnet": return []
            /\ fpc' = "done"
            /\ UNCHANGED <<offset, total_matches, page_size, all_ads, seen_ids>>
       ELSE LET total == IF resp.match_count = 0 THEN Len(resp.docs)
                         ELSE resp.match_count
                size == Len(resp.docs)
                r == AddUnseen(extract_info_from_json(resp.docs), all_ads, seen_ids)
            IN  /\ total_matches' = total
                /\ page_size' = size
                /\ all_ads' = r.ads
                /\ seen_ids' = r.seen
                /\ offset' = size
                \* page_size == 0 returns; else range(page_size, total, page_size)
                /\ fpc' = IF size # 0 /\ size < total THEN "page_request" ELSE "done"

ReceiveFirst ==
    /\ fpc = "first_wait"
    /\ \E docs \in Pages, mc \in 0..MaxMatches : FirstPage(Response(docs, mc))
    /\ UNCHANGED <<requested, notFetch>>

ReceiveFirstFailed ==
    /\ fpc = "first_wait"
    /\ FirstPage(NoData)
    /\ UNCHANGED <<requested, notFetch>>

\* one iteration of the page loop up to the fetch_json call (after the 0.2 s sleep)
RequestPage ==
    /\ fpc = "page_request"
    /\ requested' = Append(requested, offset)
    /\ inflight' = inflight + 1
    /\ fpc' = "page_wait"
    /\ UNCHANGED <<offset, total_matches, page_size, all_ads, seen_ids,
                   failedAt, emptyAt, rawFirst, extFirst, dupDropped, notFetch>>

\* The iteration with a break on a page without docs.
LoopPageStopOnEmpty(resp) ==
    /\ inflight' = inflight - 1
    /\ Observe(resp)
    /\ IF resp.ok
       THEN LET r == AddUnseen(extract_info_from_json(resp.docs), all_ads, seen_ids)
            IN  all_ads' = r.ads /\ seen_ids' = r.seen
       ELSE UNCHANGED <<all_ads, seen_ids>>
    /\ offset' = offset + page_size
    /\ fpc' = IF offset + page_size < total_matches /\ ~(resp.ok /\ resp.docs = <<>>)
              THEN "page_request" ELSE "done"
    /\ UNCHANGED <<total_matches, page_size>>

\* The iteration with a return on a failed fetch.
LoopPageAbortOnFail(resp) ==
    /\ inflight' = inflight - 1
    /\ Observe(resp)
    /\ IF resp.ok
       THEN LET r == AddUnseen(extract_info_from_json(resp.docs), all_ads, seen_ids)
            IN  all_ads' = r.ads /\ seen_ids' = r.seen
       ELSE UNCHANGED <<all_ads, seen_ids>>
    /\ offset' = offset + page_size
    /\ fpc' = IF offset + page_size < total_matches /\ resp.ok
              THEN "page_request" ELSE "done"
    /\ UNCHANGED <<total_matches, page_size>>

\* The iteration stepping two pages ahead.
LoopPageSkipOffset(resp) ==
    /\ inflight' = inflight - 1
    /\ Observe(resp)
    /\ IF resp.ok
       THEN LET r == AddUnseen(extract_info_from_json(resp.docs), all_ads, seen_ids)
            IN  all_ads' = r.ads /\ seen_ids' = r.seen
       ELSE UNCHANGED <<all_ads, seen_ids>>
    /\ offset' = offset + 2 * page_size
    /\ fpc' = IF offset + 2 * page_size < total_matches THEN "page_request" ELSE "done"
    /\ UNCHANGED <<total_matches, page_size>>

\* the rest of the iteration, and the loop's step to the next offset
LoopPage(resp) ==
    /\ inflight' = inflight - 1
    /\ Observe(resp)
    /\ IF resp.ok
       THEN LET r == AddUnseen(extract_info_from_json(resp.docs), all_ads, seen_ids)
            IN  all_ads' = r.ads /\ seen_ids' = r.seen
       ELSE UNCHANGED <<all_ads, seen_ids>>
    /\ offset' = offset + page_size
    /\ fpc' = IF offset + page_size < total_matches THEN "page_request" ELSE "done"
    /\ UNCHANGED <<total_matches, page_size>>

ReceivePage ==
    /\ fpc = "page_wait"
    /\ \E docs \in Pages : LoopPage(Response(docs, total_matches))
    /\ UNCHANGED <<requested, notFetch>>

ReceivePageFailed ==
    /\ fpc = "page_wait"
    /\ LoopPage(NoData)
    /\ UNCHANGED <<requested, notFetch>>

FetchNext ==
    \/ RequestFirst
    \/ ReceiveFirst
    \/ ReceiveFirstFailed
    \/ RequestPage
    \/ ReceivePage
    \/ ReceivePageFailed


(***************************************************************************)
(* The tables bobil and prisendringer                                      *)
(***************************************************************************)

\* A Python dict is a set of <<key, value>> pairs.
EmptyDict == {}

DictGet(d, k, default) ==
    IF \E kv \in d : kv[1] = k THEN (CHOOSE kv \in d : kv[1] = k)[2] ELSE default

\* The detail dict of a listing whose page was fetched and parsed.
FullDetails == {<<"Beskrivelse", <<"d">>>>}

IkkeTilgjengelig == <<"I", "k", "k", "e">>

\* A bobil row.  Annonsenavn stands for the columns copied from the search
\* result (Annonsenavn, Modell, Kilometerstand, Oppdatert, URL), Beskrivelse
\* for the columns read from ad["Detaljer"] with a default (Girkasse,
\* Beskrivelse, Nyttelast, Typebobil); all of them are compared as strings.
Row(finnkode, navn, beskrivelse, pris) ==
    [Finnkode |-> finnkode, Annonsenavn |-> navn,
     Beskrivelse |-> beskrivelse, Pris |-> pris]

\* SELECT ... FROM bobil WHERE Finnkode = %s
SelectRow(table, finnkode) == {r \in table : r.Finnkode = finnkode}

\* INSERT INTO bobil ... ON DUPLICATE KEY UPDATE ...
Upsert(table, row) == (table \ SelectRow(table, row.Finnkode)) \cup {row}

P5000 == <<"5", "0", "0", "0">>

P4000 == <<"4", "0", "0", "0">>

P5000Kr == <<"5", " ", "0", "0", "0", " ", "k", "r">>

Solgt == <<"S", "o", "l", "g", "t">>

\* Prices of fetched ads: str() of the amount, or None when it is absent.
AdPrices == {P5000, P4000, NoneVal}

\* Rows found in the table before a run: the price as an integer, as the
\* display string of the older revision, or as a text without digits.
StoredRows(finnkode) ==
    {Row(finnkode, "A", IkkeTilgjengelig, P5000),
     Row(finnkode, "A", IkkeTilgjengelig, P5000Kr),
     Row(finnkode, "B", IkkeTilgjengelig, P5000),
     Row(finnkode, "A", IkkeTilgjengelig, Solgt)}

\* Tables with at most one row per Finnkode 1..MaxAds.
StoredTables ==
    {t \in SUBSET (UNION {StoredRows(f) : f \in 1..MaxAds}) :
        \A r1, r2 \in t : r1.Finnkode = r2.Finnkode => r1 = r2}

\* The ad lists handed to the persist step: ad i has Finnkode i (the list
\* fetch_all_pages returns holds no Finnkode twice).
AdsOfDetails(detaljer) ==
    UNION {{a \in [1..n -> [Finnkode : 1..MaxAds, Annonsenavn : {"A"},
                            Pris : AdPrices, Detaljer : detaljer]] :
               \A i \in 1..n : a[i].Finnkode = i} : n \in 1..MaxAds}

(***************************************************************************)
(* update_database (bobil_v2.py)                                           *)
(***************************************************************************)

\* nye_verdier / data: the values compared with the row and written to it
NewValues(ad, ny_pris_int) ==
    Row(ad.Finnkode, ad.Annonsenavn,
        DictGet(ad.Detaljer, "Beskrivelse", IkkeTilgjengelig), ny_pris_int)

\* gammel_int = int(re.sub(r"[^\d]", "", str(gammel))), None when that raises
GammelInt(gammel) ==
    LET d == StripNonDigits(Str(gammel))
    IN  IF d = <<>> THEN NoneVal ELSE IntOfDigits(d)

\* endringer: the columns whose stored value differs from the new one
Endringer(row, ny) ==
    {f \in {"Annonsenavn", "Beskrivelse"} : row[f] # ny[f]}
        \cup (IF GammelInt(row.Pris) # ny.Pris THEN {"Pris"} ELSE {})

\* Counting a record as changed on the price column alone.
ClassifyByPriceOnly(rows, ny) ==
    IF rows = {} THEN "new"
    ELSE LET row == CHOOSE r \in rows : TRUE
         IN  IF GammelInt(row.Pris) # ny.Pris THEN "changed" ELSE "unchanged"

\* if row: ... endrede/uendrede ... else: nye
Classify(rows, ny) ==
    IF rows = {} THEN "new"
    ELSE LET row == CHOOSE r \in rows : TRUE
         IN  IF Endringer(row, ny) # {} THEN "changed" ELSE "unchanged"

\* The write without its "if not dry_run" guard.
WritesAlways(dry) == TRUE

\* if not dry_run: (guards the upsert and the commit)
Writes(dry) == ~dry

\* what the record is, told from the table and the ad alone
Verdict(cls, rows, ad) ==
    LET stored == rows # {}
        row == CHOOSE r \in rows : TRUE
        ny == normalize_and_format_price(ad.Pris, FALSE)
    IN  [cls |-> cls,
         written |-> FALSE,
         stored |-> stored,
         price_differs |-> stored /\ normalize_and_format_price(row.Pris, FALSE) # ny,
         other_differs |-> stored /\ (\/ row.Annonsenavn # ad.Annonsenavn
                                     \/ row.Beskrivelse #
                                          DictGet(ad.Detaljer, "Beskrivelse",
                                                  IkkeTilgjengelig))]

SkippedVerdict ==
    [cls |-> "skipped", written |-> FALSE, stored |-> FALSE,
     price_differs |-> FALSE, other_differs |-> FALSE]

DbIdle ==
    /\ dpc = "off"
    /\ ads = <<>>
    /\ dry_run = FALSE
    /\ idx = 0
    /\ txn = {}
    /\ nye_annonser = 0
    /\ endrede_annonser = 0
    /\ uendrede_annonser = 0
    /\ verdicts = <<>>
    /\ sql_writes = 0
    /\ sql_commits = 0
    /\ aborted = FALSE

TablesIdle ==
    /\ bobil = {}
    /\ prisendringer = <<>>
    /\ bobil0 = {}
    /\ pris0 = <<>>

TablesInit ==
    /\ bobil \in StoredTables
    /\ prisendringer = <<>>
    /\ bobil0 = bobil
    /\ pris0 = prisendringer

DbInit ==
    /\ dpc = "connect"
    /\ ads \in AdsOfDetails({EmptyDict, FullDetails})
    /\ dry_run \in BOOLEAN
    /\ idx = 0
    /\ txn = {}
    /\ nye_annonser = 0
    /\ endrede_annonser = 0
    /\ uendrede_annonser = 0
    /\ verdicts = <<>>
    /\ sql_writes = 0
    /\ sql_commits = 0
    /\ aborted = FALSE

\* conn = connect_to_database(); cursor = conn.cursor(); counters = 0
Connect ==
    /\ dpc = "connect"
    /\ dpc' = "loop"
    /\ idx' = 1
    /\ txn' = bobil
    /\ UNCHANGED <<ads, dry_run, nye_annonser, endrede_annonser, uendrede_annonser,
                   verdicts, sql_writes, sql_commits, aborted, tableVars, notDb>>

\* connect_to_database() returned None: the function returns at once
ConnectFails ==
    /\ dpc = "connect"
    /\ dpc' = "done"
    /\ aborted' = TRUE
    /\ UNCHANGED <<ads, dry_run, idx, txn, nye_annonser, endrede_annonser,
                   uendrede_annonser, verdicts, sql_writes, sql_commits,
                   tableVars, notDb>>

\* The pass treating a price that does not normalise as fatal.
SkipRecordAborts ==
    /\ dpc = "loop"
    /\ idx <= Len(ads)
    /\ normalize_and_format_price(ads[idx].Pris, FALSE) = NoneVal
    /\ dpc' = "done"
    /\ aborted' = TRUE
    /\ txn' = bobil
    /\ UNCHANGED <<ads, dry_run, idx, nye_annonser, endrede_annonser,
                   uendrede_annonser, verdicts, sql_writes, sql_commits,
                   tableVars, notDb>>

\* one pass of "for ad in ads" whose price does not normalise: continue
SkipRecord ==
    /\ dpc = "loop"
    /\ idx <= Len(ads)
    /\ normalize_and_format_price(ads[idx].Pris, FALSE) = NoneVal
    /\ verdicts' = Append(verdicts, SkippedVerdict)
    /\ idx' = idx + 1
    /\ UNCHANGED <<dpc, ads, dry_run, txn, nye_annonser, endrede_annonser,
                   uendrede_annonser, sql_writes, sql_commits, aborted,
                   tableVars, notDb>>

\* one pass of "for ad in ads": SELECT, compare, count, and (live) upsert.
\* execute_ok is whether cursor.execute(query, data) succeeded; a failure is
\* logged and the loop goes on.
ProcessRecord ==
    /\ dpc = "loop"
    /\ idx <= Len(ads)
    /\ LET ad == ads[idx]
           ny_pris_int == normalize_and_format_price(ad.Pris, FALSE)
           rows == SelectRow(txn, ad.Finnkode)
           ny == NewValues(ad, ny_pris_int)
           cls == Classify(rows, ny)
       IN  /\ ny_pris_int # NoneVal
           /\ nye_annonser' = nye_annonser + (IF cls = "new" THEN 1 ELSE 0)
           /\ endrede_annonser' = endrede_annonser + (IF cls = "changed" THEN 1 ELSE 0)
           /\ uendrede_annonser' = uendrede_annonser
                                     + (IF cls = "unchanged" THEN 1 ELSE 0)
           /\ IF Writes(dry_run)
              THEN \E execute_ok \in BOOLEAN :
                     /\ sql_writes' = sql_writes + 1
                     /\ txn' = IF execute_ok THEN Upsert(txn, ny) ELSE txn
                     /\ verdicts' = Append(verdicts,
                            [Verdict(cls, rows, ad) EXCEPT !.written = execute_ok])
              ELSE /\ verdicts' = Append(verdicts, Verdict(cls, rows, ad))
                   /\ UNCHANGED <<sql_writes, txn>>
    /\ idx' = idx + 1
    /\ UNCHANGED <<dpc, ads, dry_run, sql_commits, aborted, tableVars, notDb>>

\* the SELECT raises: the handler around the loop logs it, the connection is
\* closed without a commit and the pending upserts are rolled back
SelectFails ==
    /\ dpc = "loop"
    /\ idx <= Len(ads)
    /\ normalize_and_format_price(ads[idx].Pris, FALSE) # NoneVal
    /\ dpc' = "done"
    /\ aborted' = TRUE
    /\ txn' = bobil
    /\ UNCHANGED <<ads, dry_run, idx, nye_annonser, endrede_annonser,
                   uendrede_annonser, verdicts, sql_writes, sql_commits,
                   tableVars, notDb>>

\* after the loop: conn.commit() when live, the summary line, conn.close()
Finish ==
    /\ dpc = "loop"
    /\ idx > Len(ads)
    /\ dpc' = "done"
    /\ IF Writes(dry_run)
       THEN /\ bobil' = txn
            /\ sql_commits' = sql_commits + 1
       ELSE UNCHANGED <<bobil, sql_commits>>
    /\ UNCHANGED <<ads, dry_run, idx, txn, nye_annonser, endrede_annonser,
                   uendrede_annonser, verdicts, sql_writes, aborted,
                   prisendringer, bobil0, pris0, notDb>>

\* conn.commit() raises: nothing of the run is stored
CommitFails ==
    /\ dpc = "loop"
    /\ idx > Len(ads)
    /\ Writes(dry_run)
    /\ dpc' = "done"
    /\ aborted' = TRUE
    /\ sql_commits' = sql_commits + 1
    /\ txn' = bobil
    /\ UNCHANGED <<ads, dry_run, idx, nye_annonser, endrede_annonser,
                   uendrede_annonser, verdicts, sql_writes, tableVars, notDb>>

DbNext ==
    \/ Connect
    \/ ConnectFails
    \/ SkipRecord
    \/ ProcessRecord
    \/ SelectFails
    \/ Finish
    \/ CommitFails


(***************************************************************************)
(* fetch_and_combine_data (bobil_v2.py): detail fetches behind a semaphore *)
(***************************************************************************)

\* What one detail fetch can come to: fetch_html returned None, the page was
\* parsed, or extract_detailed_ad_info caught an error and returned {}.
FetchOutcomes == {"failed", "parsed", "parse_error"}

\* ad["Detaljer"] after fetch_details, from what it was before
DetailsAfter(before, outcome) ==
    IF outcome = "failed" THEN before
    ELSE IF outcome = "parsed" THEN FullDetails
    ELSE EmptyDict

\* lists of n ads that differ in their Finnkode only
UniformAds(n, detaljer) ==
    [i \in 1..n |-> [Finnkode |-> i, Annonsenavn |-> "A", Pris |-> P5000,
                     Detaljer |-> detaljer]]

InFlight(task) == Cardinality({i \in 1..Len(task) : task[i] = "fetching"})

EnrichIdle ==
    /\ epc = "off"
    /\ e_ads = <<>>
    /\ e_task = <<>>
    /\ e_outcome = <<>>
    /\ semaphore = 0

\* semaphore = asyncio.Semaphore(max_concurrent); gather(fetch_details(ad) ...)
EnrichInit ==
    /\ epc = "gather"
    /\ \E n \in 1..MaxFanout :
          /\ e_ads = UniformAds(n, EmptyDict)
          /\ e_task = [i \in 1..n |-> "pending"]
          /\ e_outcome = [i \in 1..n |-> "none"]
    /\ semaphore = MaxConcurrent

\* Semaphore.acquire proceeds only while the counter is positive
CanAcquire(value) == value > 0

\* async with semaphore: (acquire), then await asyncio.sleep(0.2)
Acquire(i) ==
    /\ epc = "gather"
    /\ e_task[i] = "pending"
    /\ CanAcquire(semaphore)
    /\ semaphore' = semaphore - 1
    /\ e_task' = [e_task EXCEPT ![i] = "sleeping"]
    /\ UNCHANGED <<epc, e_ads, e_outcome, notEnrich>>

\* the sleep is over: html = await fetch_html(session, ad["URL"]) sends its request
StartFetch(i) ==
    /\ epc = "gather"
    /\ e_task[i] = "sleeping"
    /\ e_task' = [e_task EXCEPT ![i] = "fetching"]
    /\ UNCHANGED <<epc, e_ads, e_outcome, semaphore, notEnrich>>

\* fetch_html returns; Detaljer is set when html is truthy; the slot is released
Fetched(i, outcome) ==
    /\ epc = "gather"
    /\ e_task[i] = "fetching"
    /\ e_ads' = [e_ads EXCEPT ![i].Detaljer = DetailsAfter(@, outcome)]
    /\ e_outcome' = [e_outcome EXCEPT ![i] = outcome]
    /\ e_task' = [e_task EXCEPT ![i] = "done"]
    /\ semaphore' = semaphore + 1
    /\ UNCHANGED <<epc, notEnrich>>

\* asyncio.gather returns the ads in input order once every task is done
Gathered ==
    /\ epc = "gather"
    /\ \A i \in 1..Len(e_task) : e_task[i] = "done"
    /\ epc' = "returned"
    /\ UNCHANGED <<e_ads, e_task, e_outcome, semaphore, notEnrich>>

EnrichNext ==
    \/ \E i \in 1..Len(e_task) : Acquire(i)
    \/ \E i \in 1..Len(e_task) : StartFetch(i)
    \/ \E i \in 1..Len(e_task), outcome \in FetchOutcomes : Fetched(i, outcome)
    \/ Gathered

(***************************************************************************)
(* bobil.py: main, fetch_and_combine_data, compare_prices_and_save         *)
(***************************************************************************)

\* "Detaljer": None, as extract_info_from_json of bobil.py leaves it
NoneDict == {<<"None">>}

\* what a connection of its own can come to in log_price_change and
\* update_bobil_table: it works, connect_to_database returns None, or the
\* statement raises mysql.connector.Error
DbOutcomes == {"ok", "no_conn", "error"}

LegacyIdle ==
    /\ lpc = "off"
    /\ l_ads = <<>>
    /\ l_task = <<>>
    /\ l_outcome = <<>>
    /\ existing_ads = {}
    /\ l_idx = 0

\* main up to the gather: existing_ads read from bobil, the ads of the search
\* page extracted with "Detaljer": None.  Lists longer than MaxAds hold
\* identical new listings and meet an empty table.
LegacyInit ==
    /\ lpc = "gather"
    /\ \/ l_ads \in AdsOfDetails({NoneDict})
       \/ /\ \E n \in (MaxAds + 1)..MaxFanout : l_ads = UniformAds(n, NoneDict)
          /\ bobil = {}
    /\ l_task = [i \in 1..Len(l_ads) |-> "pending"]
    /\ l_outcome = [i \in 1..Len(l_ads) |-> "none"]
    /\ existing_ads = bobil
    /\ l_idx = 0

\* fetch_details(ad): html_content = await fetch_html(session, ad["URL"]) sends
LegacyStartFetch(i) ==
    /\ lpc = "gather"
    /\ l_task[i] = "pending"
    /\ l_task' = [l_task EXCEPT ![i] = "fetching"]
    /\ UNCHANGED <<lpc, l_ads, l_outcome, existing_ads, l_idx, tableVars, notLegacy>>

\* fetch_html returns; ad.update({"Detaljer": ...}) only when html is truthy
LegacyFetched(i, outcome) ==
    /\ lpc = "gather"
    /\ l_task[i] = "fetching"
    /\ l_ads' = [l_ads EXCEPT ![i].Detaljer = DetailsAfter(@, outcome)]
    /\ l_outcome' = [l_outcome EXCEPT ![i] = outcome]
    /\ l_task' = [l_task EXCEPT ![i] = "done"]
    /\ UNCHANGED <<lpc, existing_ads, l_idx, tableVars, notLegacy>>

\* gather returns; compare_prices_and_save(detailed_ads, existing_ads) begins
LegacyGathered ==
    /\ lpc = "gather"
    /\ \A i \in 1..Len(l_task) : l_task[i] = "done"
    /\ lpc' = "compare"
    /\ l_idx' = 1
    /\ UNCHANGED <<l_ads, l_task, l_outcome, existing_ads, tableVars, notLegacy>>

\* log_price_change(finnkode, ny_pris): INSERT INTO prisendringer and commit
\* on a connection of its own; without a connection or on an error, no row
log_price_change(table, finnkode, ny_pris, db) ==
    IF db = "ok" THEN Append(table, [Finnkode |-> finnkode, Pris |-> ny_pris])
    ELSE table

\* The data tuple of update_bobil_table; ad["Detaljer"].get raises
\* AttributeError when Detaljer is None.
LegacyRow(ad) ==
    Row(ad.Finnkode, ad.Annonsenavn,
        DictGet(ad.Detaljer, "Beskrivelse", IkkeTilgjengelig),
        normalize_and_format_price(ad.Pris, TRUE))

\* update_bobil_table raises: a connection was made and Detaljer is None
\* (only mysql.connector.Error is caught there and nowhere up to main)
UpdateRaises(ad, db) == db # "no_conn" /\ ad.Detaljer = NoneDict

\* update_bobil_table(ad): upsert and commit on a connection of its own
update_bobil_table(table, ad, db) ==
    IF db = "ok" /\ ad.Detaljer # NoneDict THEN Upsert(table, LegacyRow(ad)) ELSE table

\* after a record: the next one, or the end of main when the call raised
LegacyStep(raised) ==
    /\ lpc' = IF raised THEN "crashed" ELSE "compare"
    /\ l_idx' = IF raised THEN l_idx ELSE l_idx + 1

\* ny_pris is None, or the stored price does not normalise: continue
LegacySkip ==
    /\ lpc = "compare"
    /\ l_idx <= Len(l_ads)
    /\ LET ad == l_ads[l_idx]
           old == SelectRow(existing_ads, ad.Finnkode)
       IN  \/ normalize_and_format_price(ad.Pris, TRUE) = NoneVal
           \/ /\ old # {}
              /\ normalize_and_format_price((CHOOSE r \in old : TRUE).Pris, TRUE)
                    = NoneVal
    /\ LegacyStep(FALSE)
    /\ UNCHANGED <<l_ads, l_task, l_outcome, existing_ads, tableVars, notLegacy>>

\* finnkode in existing_ads and gammel_pris == ny_pris: nothing is written
LegacyUnchanged ==
    /\ lpc = "compare"
    /\ l_idx <= Len(l_ads)
    /\ LET ad == l_ads[l_idx]
           old == SelectRow(existing_ads, ad.Finnkode)
           ny_pris == normalize_and_format_price(ad.Pris, TRUE)
       IN  /\ ny_pris # NoneVal
           /\ old # {}
           /\ normalize_and_format_price((CHOOSE r \in old : TRUE).Pris, TRUE) = ny_pris
    /\ LegacyStep(FALSE)
    /\ UNCHANGED <<l_ads, l_task, l_outcome, existing_ads, tableVars, notLegacy>>

\* finnkode in existing_ads and gammel_pris != ny_pris:
\* log_price_change(finnkode, formatted_ny_pris); update_bobil_table(ad)
LegacyPriceChanged ==
    /\ lpc = "compare"
    /\ l_idx <= Len(l_ads)
    /\ LET ad == l_ads[l_idx]
           old == SelectRow(existing_ads, ad.Finnkode)
           ny_pris == normalize_and_format_price(ad.Pris, TRUE)
           gammel_pris ==
               normalize_and_format_price((CHOOSE r \in old : TRUE).Pris, TRUE)
       IN  /\ ny_pris # NoneVal
           /\ old # {}
           /\ gammel_pris # NoneVal
           /\ gammel_pris # ny_pris
           /\ \E log_db, upsert_db \in DbOutcomes :
                 /\ prisendringer' =
                        log_price_change(prisendringer, ad.Finnkode, ny_pris, log_db)
                 /\ bobil' = update_bobil_table(bobil, ad, upsert_db)
                 /\ LegacyStep(UpdateRaises(ad, upsert_db))
    /\ UNCHANGED <<l_ads, l_task, l_outcome, existing_ads, bobil0, pris0, notLegacy>>

\* a listing not in existing_ads gets its price logged as well
LegacyNewLogsPrice ==
    /\ lpc = "compare"
    /\ l_idx <= Len(l_ads)
    /\ LET ad == l_ads[l_idx]
           ny_pris == normalize_and_format_price(ad.Pris, TRUE)
       IN  /\ ny_pris # NoneVal
           /\ SelectRow(existing_ads, ad.Finnkode) = {}
           /\ \E log_db, upsert_db \in DbOutcomes :
                 /\ prisendringer' =
                        log_price_change(prisendringer, ad.Finnkode, ny_pris, log_db)
                 /\ bobil' = update_bobil_table(bobil, ad, upsert_db)
                 /\ LegacyStep(UpdateRaises(ad, upsert_db))
    /\ UNCHANGED <<l_ads, l_task, l_outcome, existing_ads, bobil0, pris0, notLegacy>>

\* finnkode not in existing_ads: update_bobil_table(ad)
LegacyNew ==
    /\ lpc = "compare"
    /\ l_idx <= Len(l_ads)
    /\ LET ad == l_ads[l_idx]
       IN  /\ normalize_and_format_price(ad.Pris, TRUE) # NoneVal
           /\ SelectRow(existing_ads, ad.Finnkode) = {}
           /\ \E upsert_db \in DbOutcomes :
                 /\ bobil' = update_bobil_table(bobil, ad, upsert_db)
                 /\ LegacyStep(UpdateRaises(ad, upsert_db))
    /\ UNCHANGED <<l_ads, l_task, l_outcome, existing_ads, prisendringer,
                   bobil0, pris0, notLegacy>>

\* the loop is over: update_last_run() and "Avslutter script..."
LegacyFinish ==
    /\ lpc = "compare"
    /\ l_idx > Len(l_ads)
    /\ lpc' = "done"
    /\ UNCHANGED <<l_ads, l_task, l_outcome, existing_ads, l_idx, tableVars, notLegacy>>

LegacyNext ==
    \/ \E i \in 1..Len(l_task) : LegacyStartFetch(i)
    \/ \E i \in 1..Len(l_task), outcome \in FetchOutcomes : LegacyFetched(i, outcome)
    \/ LegacyGathered
    \/ LegacySkip
    \/ LegacyUnchanged
    \/ LegacyPriceChanged
    \/ LegacyNew
    \/ LegacyFinish

(***************************************************************************)
(* main (bobil_v2.py): fetch_all_pages, fetch_and_combine_data,            *)
(* update_database                                                         *)
(***************************************************************************)

MainIdle == mpc = "off"

\* The table a whole run meets: listing 1 stored at another price, the
\* other listings new.
MainTables == {{Row(1, "A", IkkeTilgjengelig, P4000)}}

\* The price the listings of a run carry: an amount, or None (no price key).
MainPrices == {P5000, NoneVal}

\* async with aiohttp.ClientSession(): ads_data = await fetch_all_pages(...)
MainInit ==
    /\ mpc = "fetch"
    /\ FetchInit
    /\ bobil \in MainTables
    /\ prisendringer = <<>>
    /\ bobil0 = bobil
    /\ pris0 = prisendringer

\* the ad dict extract_info_from_json builds, with "Detaljer": {}
AdOfListing(listing, pris) ==
    [Finnkode |-> listing.Finnkode, Annonsenavn |-> "A", Pris |-> pris,
     Detaljer |-> EmptyDict]

\* if not ads_data: "Ingen annonser hentet fra FINN API."; return
MainReturnsNoAds ==
    /\ mpc = "fetch"
    /\ fpc = "done"
    /\ all_ads = <<>>
    /\ mpc' = "returned"
    /\ UNCHANGED <<priceVars, fetchVars, tableVars, dbVars, enrichVars, legacyVars,
                   addonVars>>

\* detailed_ads = await fetch_and_combine_data(session, ads_data): the tasks.
\* fetch_all_pages has returned: its locals and the bookkeeping of its pages
\* are gone, the returned list (ads_data) is what is left of it.
MainEnrich ==
    /\ mpc = "fetch"
    /\ fpc = "done"
    /\ all_ads # <<>>
    /\ mpc' = "enrich"
    /\ fpc' = "returned"
    /\ offset' = 0 /\ total_matches' = 0 /\ page_size' = 0 /\ seen_ids' = {}
    /\ requested' = <<>> /\ failedAt' = {} /\ emptyAt' = {}
    /\ rawFirst' = <<>> /\ extFirst' = <<>> /\ dupDropped' = FALSE
    /\ UNCHANGED <<all_ads, inflight>>
    /\ epc' = "gather"
    /\ \E pris \in MainPrices :
          e_ads' = [i \in 1..Len(all_ads) |-> AdOfListing(all_ads[i], pris)]
    /\ e_task' = [i \in 1..Len(all_ads) |-> "pending"]
    /\ e_outcome' = [i \in 1..Len(all_ads) |-> "none"]
    /\ semaphore' = MaxConcurrent
    /\ UNCHANGED <<priceVars, tableVars, dbVars, legacyVars, addonVars>>

\* update_database(detailed_ads, dry_run=DRY_RUN): the call
MainPersist ==
    /\ mpc = "enrich"
    /\ epc = "returned"
    /\ mpc' = "persist"
    /\ dpc' = "connect"
    /\ ads' = e_ads
    /\ dry_run' \in BOOLEAN
    /\ UNCHANGED <<idx, txn, nye_annonser, endrede_annonser, uendrede_annonser,
                   verdicts, sql_writes, sql_commits, aborted,
                   priceVars, fetchVars, tableVars, enrichVars, legacyVars,
                   addonVars>>

\* update_database returned: "Avslutter script..."
MainDone ==
    /\ mpc = "persist"
    /\ dpc = "done"
    /\ mpc' = "done"
    /\ UNCHANGED <<priceVars, fetchVars, tableVars, dbVars, enrichVars, legacyVars,
                   addonVars>>

MainNext ==
    \/ RequestFirst
    \/ ReceiveFirst
    \/ ReceiveFirstFailed
    \/ RequestPage
    \/ ReceivePage
    \/ ReceivePageFailed
    \/ MainReturnsNoAds
    \/ MainEnrich
    \/ \E i \in 1..Len(e_task) : Acquire(i)
    \/ \E i \in 1..Len(e_task) : StartFetch(i)
    \/ \E i \in 1..Len(e_task), outcome \in FetchOutcomes : Fetched(i, outcome)
    \/ Gathered
    \/ MainPersist
    \/ Connect
    \/ ConnectFails
    \/ SkipRecord
    \/ ProcessRecord
    \/ SelectFails
    \/ Finish
    \/ CommitFails
    \/ MainDone

(***************************************************************************)
(* webhook (Webhook_external/run.py)                                       *)
(***************************************************************************)

\* Keys of the posted object, as strings: plain names, the empty key and
\* names holding a character that delimits a part of a URL.
WebhookKeys ==
    {<<"t">>, <<"t", "_", "g">>, <<>>,
     <<"t", "#", "g">>, <<"t", "?", "g">>, <<"t", "/", "g">>}

WebhookValues == {"17.3", "on"}

\* status codes Home Assistant answers a state update with
HaStatuses == {200, 400}

\* A JSON object as Python keeps it: its items in order, no key twice.
JsonObjects ==
    UNION {{o \in [1..n -> [key : WebhookKeys, value : WebhookValues]] :
               \A i, j \in 1..n : o[i].key = o[j].key => i = j} : n \in 1..MaxKeys}

\* What request.get_json() gives: a falsy value (null, {}, [], 0, ""), a
\* non-empty object, a truthy value that is no object, or an exception.
WebhookBodies ==
    {[kind |-> k, items |-> <<>>] : k \in {"falsy", "other", "invalid"}}
        \cup {[kind |-> "object", items |-> o] : o \in JsonObjects}

\* entity_id = f"sensor.{key}_ekstern"
EntityId(key) == <<"sensor", ".">> \o key \o <<"_", "ekstern">>

\* f"{HA_API_BASE}/states/{entity_id}"
StateUrl(entity_id) == <<"http://supervisor/core/api", "/", "states", "/">> \o entity_id

\* the part of s before the first c, all of s when c is not in it
Before(s, c) ==
    IF \E i \in 1..Len(s) : s[i] = c
    THEN SubSeq(s, 1, (CHOOSE i \in 1..Len(s) :
                          s[i] = c /\ \A j \in 1..(i - 1) : s[j] # c) - 1)
    ELSE s

\* The path requests.post puts on the request line: the URL without its
\* fragment ("#...") and its query ("?..."), which are not part of the path.
RequestPath(url) == Before(Before(url, "#"), "?")

\* The entity a POST to /api/states/<entity_id> addresses: the one path
\* segment after "states/"; a path with a further "/" matches no such route.
AddressedEntity(url) ==
    LET path == RequestPath(url)
        seg == SubSeq(path, 5, Len(path))
    IN  IF \E i \in 1..Len(seg) : seg[i] = "/" THEN <<"no route">> ELSE seg

WebhookIdle ==
    /\ wpc = "off"
    /\ w_data = [kind |-> "falsy", items |-> <<>>]
    /\ w_idx = 0
    /\ w_responses = <<>>
    /\ w_sent = <<>>
    /\ w_reply = [code |-> 0, updated |-> <<>>]

\* a POST /webhook arrives: data = request.get_json()
WebhookInit ==
    /\ wpc = "received"
    /\ w_data \in WebhookBodies
    /\ w_idx = 0
    /\ w_responses = <<>>
    /\ w_sent = <<>>
    /\ w_reply = [code |-> 0, updated |-> <<>>]

\* if not data: return jsonify({"error": "Ingen data"}), 400
RejectEmpty ==
    /\ wpc = "received"
    /\ w_data.kind = "falsy"
    /\ wpc' = "replied"
    /\ w_reply' = [code |-> 400, updated |-> <<>>]
    /\ UNCHANGED <<w_data, w_idx, w_responses, w_sent, notWebhook>>

\* get_json raises, or data has no .items(): except Exception -> 500
RaiseOnBody ==
    /\ wpc = "received"
    /\ w_data.kind \in {"invalid", "other"}
    /\ wpc' = "replied"
    /\ w_reply' = [code |-> 500, updated |-> <<>>]
    /\ UNCHANGED <<w_data, w_idx, w_responses, w_sent, notWebhook>>

\* responses = []; for key, value in data.items():
EnterLoop ==
    /\ wpc = "received"
    /\ w_data.kind = "object"
    /\ wpc' = "loop"
    /\ w_idx' = 1
    /\ UNCHANGED <<w_data, w_responses, w_sent, w_reply, notWebhook>>

\* one pass: requests.post(...) completes, responses.append((entity_id, status))
PostState ==
    /\ wpc = "loop"
    /\ w_idx <= Len(w_data.items)
    /\ LET item == w_data.items[w_idx]
           entity_id == EntityId(item.key)
       IN  \E status \in (IF AddressedEntity(StateUrl(entity_id)) = <<"no route">>
                           THEN {404} ELSE HaStatuses) :
              /\ w_sent' = Append(w_sent, [url |-> StateUrl(entity_id),
                                           state |-> item.value])
              /\ w_responses' = Append(w_responses, <<entity_id, status>>)
    /\ w_idx' = w_idx + 1
    /\ UNCHANGED <<wpc, w_data, w_reply, notWebhook>>

\* the exception of requests.post is swallowed and the loop goes on
PostRaisesGoesOn(delivered) ==
    /\ wpc = "loop"
    /\ w_idx <= Len(w_data.items)
    /\ w_idx' = w_idx + 1
    /\ w_sent' = IF delivered
                   THEN Append(w_sent, [url |-> StateUrl(EntityId(w_data.items[w_idx].key)),
                                        state |-> w_data.items[w_idx].value])
                   ELSE w_sent
    /\ UNCHANGED <<wpc, w_data, w_responses, w_reply, notWebhook>>

\* requests.post raises: except Exception -> 500.  A connection error comes
\* before the request is sent; a read timeout comes after, and Home
\* Assistant may have applied the update (delivered).
PostRaises(delivered) ==
    /\ wpc = "loop"
    /\ w_idx <= Len(w_data.items)
    /\ wpc' = "replied"
    /\ w_reply' = [code |-> 500, updated |-> <<>>]
    /\ w_sent' = IF delivered
                   THEN Append(w_sent, [url |-> StateUrl(EntityId(w_data.items[w_idx].key)),
                                        state |-> w_data.items[w_idx].value])
                   ELSE w_sent
    /\ UNCHANGED <<w_data, w_idx, w_responses, notWebhook>>

\* return jsonify({"updated": responses}), 200
ReplyUpdated ==
    /\ wpc = "loop"
    /\ w_idx > Len(w_data.items)
    /\ wpc' = "replied"
    /\ w_reply' = [code |-> 200, updated |-> w_responses]
    /\ UNCHANGED <<w_data, w_idx, w_responses, w_sent, notWebhook>>

WebhookNext ==
    \/ RejectEmpty
    \/ RaiseOnBody
    \/ EnterLoop
    \/ PostState
    \/ \E delivered \in BOOLEAN : PostRaises(delivered)
    \/ ReplyUpdated

(***************************************************************************)
(* extract_week_number (Ukenytt_Frida/ukenytt.py)                          *)
(***************************************************************************)

\* str.lower() on the letters that occur in the inputs
LowerChar(c) ==
    IF c = "U" THEN "u" ELSE IF c = "K" THEN "k" ELSE IF c = "E" THEN "e" ELSE c

LowerStr(s) == [i \in 1..Len(s) |-> LowerChar(s[i])]

\* \s* from position j: the first position at or after j that holds no space
RECURSIVE SkipSpaces(_, _)
SkipSpaces(s, j) ==
    IF j <= Len(s) /\ s[j] = " " THEN SkipSpaces(s, j + 1) ELSE j

\* the pattern [heads]ke\s*(\d{1,2}) matches at position i
UkeMatchAt(s, i, heads) ==
    /\ i + 2 <= Len(s)
    /\ s[i] \in heads /\ s[i + 1] = "k" /\ s[i + 2] = "e"
    /\ SkipSpaces(s, i + 3) <= Len(s)
    /\ s[SkipSpaces(s, i + 3)] \in Digits

\* group(1) of the match at i: one digit, two when a second one follows
UkeGroup(s, i) ==
    LET j == SkipSpaces(s, i + 3)
    IN  IF j + 1 <= Len(s) /\ s[j + 1] \in Digits THEN <<s[j], s[j + 1]>>
        ELSE <<s[j]>>

\* re.search: group(1) of the leftmost match from position i on, else None
RECURSIVE SearchUke(_, _, _)
SearchUke(s, i, heads) ==
    IF i > Len(s) THEN NoneVal
    ELSE IF UkeMatchAt(s, i, heads) THEN UkeGroup(s, i)
    ELSE SearchUke(s, i + 1, heads)

\* digits.lstrip('0') or '0'
RECURSIVE LStripZeros(_)
LStripZeros(ds) ==
    IF ds = <<>> THEN <<"0">>
    ELSE IF ds[1] = "0" THEN LStripZeros(Tail(ds)) ELSE ds

\* the loop over pdf_tables: the first table whose to_string() matches
RECURSIVE SearchTables(_)
SearchTables(tables) ==
    IF tables = <<>> THEN NoneVal
    ELSE IF SearchUke(Head(tables), 1, {"U", "u"}) # NoneVal
         THEN SearchUke(Head(tables), 1, {"U", "u"})
    ELSE SearchTables(Tail(tables))

\* The resolution trying the PDF text before the bare digits of the file name.
extract_week_number_text_first(stem, pdf_tables, pdf_text) ==
    LET filename == LowerStr(stem)
        digits == StripNonDigits(filename)
    IN  IF SearchUke(filename, 1, {"u"}) # NoneVal THEN SearchUke(filename, 1, {"u"})
        ELSE IF SearchUke(pdf_text, 1, {"U", "u"}) # NoneVal
             THEN SearchUke(pdf_text, 1, {"U", "u"})
        ELSE IF digits # <<>> THEN LStripZeros(digits)
        ELSE IF SearchTables(pdf_tables) # NoneVal THEN SearchTables(pdf_tables)
        ELSE <<"0">>

\* extract_week_number(file_path, pdf_tables, pdf_text), stem = file_path.stem
extract_week_number(stem, pdf_tables, pdf_text) ==
    LET filename == LowerStr(stem)
        digits == StripNonDigits(filename)
    IN  IF SearchUke(filename, 1, {"u"}) # NoneVal THEN SearchUke(filename, 1, {"u"})
        ELSE IF digits # <<>> THEN LStripZeros(digits)
        ELSE IF SearchUke(pdf_text, 1, {"U", "u"}) # NoneVal
             THEN SearchUke(pdf_text, 1, {"U", "u"})
        ELSE IF SearchTables(pdf_tables) # NoneVal THEN SearchTables(pdf_tables)
        ELSE <<"0">>

\* what file names are put together from
NamePieces ==
    {<<"u", "k", "e">>, <<"U", "k", "e">>, <<" ">>, <<"_">>,
     <<"5">>, <<"1", "2">>, <<"0">>}

RECURSIVE Concat(_)
Concat(pieces) == IF pieces = <<>> THEN <<>> ELSE Head(pieces) \o Concat(Tail(pieces))

FileStems == {Concat(p) : p \in UNION {[1..n -> NamePieces] : n \in 0..MaxPieces}}

\* texts of the PDF body: none, without a week, with one, in capitals
PdfTexts ==
    {<<>>, <<"U", "k", "e", " ", "1", "2">>, <<"u", "k", "e", "7">>,
     <<"U", "K", "E", " ", "3">>, <<"i", "n", "f", "o">>}

\* table.to_string() of the tables read from the PDF
PdfTables ==
    {<<>>, << <<"M", "a", "n">> >>, << <<"U", "k", "e", " ", " ", "9">> >>,
     << <<"M", "a", "n">>, <<"u", "k", "e", "1", "0", "1">> >>}

WeekIdle ==
    /\ kpc = "off"
    /\ wk_name = <<>>
    /\ wk_text = <<>>
    /\ wk_tables = <<>>
    /\ wk_result = NoneVal

WeekInit ==
    /\ kpc = "call"
    /\ wk_name \in FileStems
    /\ wk_text \in PdfTexts
    /\ wk_tables \in PdfTables
    /\ wk_result = NoneVal

ExtractWeek ==
    /\ kpc = "call"
    /\ wk_result' = extract_week_number(wk_name, wk_tables, wk_text)
    /\ kpc' = "done"
    /\ UNCHANGED <<wk_name, wk_text, wk_tables, notWeek>>

WeekNext == ExtractWeek

(***************************************************************************)
(* parse_pdf (Ukenytt_Frida/ukenytt.py)                                    *)
(***************************************************************************)

\* WEEKDAYS = ["Mandag", "Tirsdag", "Onsdag", "Torsdag", "Fredag"]
WEEKDAYS == <<"Mandag", "Tirsdag", "Onsdag", "Torsdag", "Fredag">>

\* len(df)
NRows(table) == Cardinality(DOMAIN table)

\* pandas NaN: index.min() of no rows
NaN == -1000

notna(x) == x # NaN

\* df.iloc[:, 0] == day: the rows whose first cell is the label
RowsOf(table, day) == {r \in DOMAIN table : table[r].label = day}

\* df[df.iloc[:, 0] == day].index.min()
IndexMin(table, day) ==
    IF RowsOf(table, day) = {} THEN NaN
    ELSE CHOOSE r \in RowsOf(table, day) : \A q \in RowsOf(table, day) : r <= q

\* a slice bound as Python reads it: negative counts from the end, then clamped
SliceBound(x, n) ==
    IF x < 0 THEN (IF x + n < 0 THEN 0 ELSE x + n)
    ELSE (IF x > n THEN n ELSE x)

\* the positions df.iloc[start:stop] selects, in order
SliceRows(start, stop, n) ==
    LET a == SliceBound(start, n)
        b == SliceBound(stop, n)
    IN  [k \in 1..(IF b > a THEN b - a ELSE 0) |-> a + k - 1]

\* "item and str(item).strip()": the cell is kept
Kept(item) == item # <<>> /\ \E i \in 1..Len(item) : item[i] # " "

\* the bounds of a weekday's slice as the code computes them
SliceStart(table, i) == IndexMin(table, WEEKDAYS[i]) - 1

\* end = (next_day_idx - 2) if pd.notna(next_day_idx) else last_index
SliceEnd(table, i) ==
    LET next_day_idx == IF i + 1 <= Len(WEEKDAYS)
                        THEN IndexMin(table, WEEKDAYS[i + 1]) ELSE NaN
    IN  IF notna(next_day_idx) THEN next_day_idx - 2 ELSE NRows(table) - 1

\* todo_list of weekday i: the kept cells of the content column in the slice
TodoList(table, i) ==
    LET rows == SliceRows(SliceStart(table, i), SliceEnd(table, i) + 1, NRows(table))
        cells == [k \in 1..Len(rows) |-> table[rows[k]].cell]
    IN  SelectSeq(cells, Kept)

\* The loop giving a missing weekday an empty entry.
parse_pdf_keeps_missing(table) ==
    [day \in {WEEKDAYS[i] : i \in 1..Len(WEEKDAYS)} |->
        LET i == CHOOSE k \in 1..Len(WEEKDAYS) : WEEKDAYS[k] = day
        IN  IF notna(IndexMin(table, day)) THEN TodoList(table, i) ELSE <<>>]

\* parse_pdf: output[day] for the weekdays found whose todo_list is not empty
parse_pdf(table) ==
    LET found == {i \in 1..Len(WEEKDAYS) :
                     /\ notna(IndexMin(table, WEEKDAYS[i]))
                     /\ TodoList(table, i) # <<>>}
    IN  [day \in {WEEKDAYS[i] : i \in found} |->
            TodoList(table, CHOOSE i \in found : WEEKDAYS[i] = day)]

\* Cells of the content column: empty, blank, or the task written in row r.
Task(r) == <<"t", r>>

\* the k-th smallest member of a set of numbers
Nth(S, k) == CHOOSE x \in S : Cardinality({y \in S : y <= x}) = k

\* The table of n rows, numbered from 0 as in the DataFrame, whose label rows
\* are at and whose labels are the weekdays numbered in days, top to bottom
\* in weekday order; the rows in filled hold a task, the others are blank.
TableOf(n, at, days, filled, blank) ==
    [r \in 0..(n - 1) |->
        [label |-> IF r \in at
                   THEN WEEKDAYS[Nth(days, Cardinality({q \in at : q <= r}))]
                   ELSE "",
         cell |-> IF r \in filled THEN Task(r) ELSE blank]]

ParseIdle ==
    /\ qpc = "off"
    /\ df = <<>>
    /\ output = <<>>

ParseInit ==
    /\ qpc = "call"
    /\ \E n \in 1..MaxRows :
          \E at \in SUBSET (0..(n - 1)), days \in SUBSET (1..Len(WEEKDAYS)),
             filled \in SUBSET (0..(n - 1)), blank \in {<<>>, <<" ">>} :
              /\ Cardinality(at) = Cardinality(days)
              /\ df = TableOf(n, at, days, filled, blank)
    /\ output = <<>>

ParsePdf ==
    /\ qpc = "call"
    /\ output' = parse_pdf(df)
    /\ qpc' = "done"
    /\ UNCHANGED <<df, notParse>>

ParseNext == ParsePdf

(***************************************************************************)
(* truncate_text and the info attribute of update_home_assistant_sensor    *)
(***************************************************************************)

\* s.rsplit(' ', 1)[0]: s up to its last blank, all of s when it has none
RSplitHead(s) ==
    LET blanks == {i \in 1..Len(s) : s[i] = " "}
    IN  IF blanks = {} THEN s
        ELSE SubSeq(s, 1, (CHOOSE i \in blanks : \A k \in blanks : k <= i) - 1)

\* Cutting at max_length and then adding the dots.
truncate_text_no_room(text, max_length) ==
    IF text = <<>> \/ Len(text) <= max_length THEN text
    ELSE RSplitHead(SubSeq(text, 1, max_length)) \o <<".", ".", ".">>

\* truncate_text(text, max_length)
truncate_text(text, max_length) ==
    IF text = <<>> \/ Len(text) <= max_length THEN text
    ELSE RSplitHead(SubSeq(text, 1, max_length - 3)) \o <<".", ".", ".">>

\* info_truncated, and None when there is no extra text
InfoTruncated(text) ==
    IF text = <<>> THEN NoneVal
    ELSE IF Len(text) > MAX_INFO_LENGTH THEN truncate_text(text, MAX_INFO_LENGTH)
    ELSE text

\* has_full_info
HasFullInfo(text) == text # <<>> /\ Len(text) > MAX_INFO_LENGTH

\* Extra texts as extract_extra_text returns them (stripped): n characters
\* with blanks at the positions in blanks.
TextOf(n, blanks) == [i \in 1..n |-> IF i \in blanks THEN " " ELSE "a"]

TextLengths == (0..MaxOver) \cup ((MAX_INFO_LENGTH - MaxOver)..(MAX_INFO_LENGTH + MaxOver))

BlankPlaces ==
    {2, MAX_INFO_LENGTH - 4, MAX_INFO_LENGTH - 3, MAX_INFO_LENGTH - 2, MAX_INFO_LENGTH}

SensorIdle ==
    /\ upc = "off"
    /\ extra_text = <<>>
    /\ info = NoneVal
    /\ info_full_available = FALSE

SensorInit ==
    /\ upc = "call"
    /\ \E n \in TextLengths, blanks \in SUBSET BlankPlaces :
          /\ \A b \in blanks : 1 < b /\ b < n
          /\ extra_text = TextOf(n, blanks)
    /\ info = NoneVal
    /\ info_full_available = FALSE

\* the payload's attributes "info" (None: the key is removed) and
\* "info_full_available"
BuildPayload ==
    /\ upc = "call"
    /\ info' = InfoTruncated(extra_text)
    /\ info_full_available' = HasFullInfo(extra_text)
    /\ upc' = "done"
    /\ UNCHANGED <<extra_text, notSensor>>

SensorNext == BuildPayload

(***************************************************************************)
(* The info side file: process_pdf_for_child, save_info_file, get_info and *)
(* get_child_data                                                          *)
(***************************************************************************)

\* CHILDREN, in configuration order
CHILDREN == <<"frida", "oskar">>

ChildNames == {CHILDREN[i] : i \in 1..Len(CHILDREN)}

\* what extract_extra_text returns for the PDFs uploaded: nothing, or a text
ExtraTexts == {<<>>, <<"a">>, <<"b">>}

\* status codes of POST /api/states/<sensor>
PushStatuses == {200, 500}

\* <child>_info.txt after update_home_assistant_sensor(child, ..., extra):
\* written only for a non-empty extra text
InfoFileAfter(file, extra) == IF extra # <<>> THEN extra ELSE file

\* get_info(child): 404 without a file, else the file's text
get_info(child) ==
    IF info_file[child] = NoneVal THEN <<404>> ELSE <<200, info_file[child]>>

\* get_child_data(child)["info"]: the sensor's attribute when the GET
\* succeeds, replaced by the file's text when the file exists
get_child_data(child, reachable) ==
    IF info_file[child] # NoneVal THEN info_file[child]
    ELSE IF reachable THEN sensor_info[child]
    ELSE NoneVal

InfoIdle ==
    /\ ipc = "off"
    /\ info_file = <<>>
    /\ sensor_info = <<>>
    /\ last_extra = <<>>
    /\ uploads = 0
    /\ info_reply = <<>>
    /\ page_info = <<>>

InfoInit ==
    /\ ipc = "serving"
    /\ info_file = [c \in ChildNames |-> NoneVal]
    /\ sensor_info = [c \in ChildNames |-> NoneVal]
    /\ last_extra = [c \in ChildNames |-> NoneVal]
    /\ uploads = 0
    /\ info_reply = <<>>
    /\ page_info = <<>>

\* process_pdf_for_child(child) on a PDF that parses: the extra text goes to
\* update_home_assistant_sensor, which writes the info file and then posts
ProcessPdfForChild(child, extra, status) ==
    /\ ipc = "serving"
    /\ uploads < MaxUploads
    /\ uploads' = uploads + 1
    /\ info_file' = [info_file EXCEPT ![child] = InfoFileAfter(@, extra)]
    /\ sensor_info' = IF status = 200
                        THEN [sensor_info EXCEPT ![child] = InfoTruncated(extra)]
                        ELSE sensor_info
    /\ last_extra' = [last_extra EXCEPT ![child] = extra]
    /\ UNCHANGED <<ipc, info_reply, page_info, notInfo>>

\* process_pdf_for_child(child) on a PDF without a weekday table: parse_pdf
\* raises ValueError before anything is written
ProcessPdfRejected(child) ==
    /\ ipc = "serving"
    /\ uploads < MaxUploads
    /\ uploads' = uploads + 1
    /\ UNCHANGED <<ipc, info_file, sensor_info, last_extra, info_reply, page_info, notInfo>>

\* GET /info/<child>
GetInfo(child) ==
    /\ ipc = "serving"
    /\ info_reply' = <<child>> \o get_info(child)
    /\ UNCHANGED <<ipc, info_file, sensor_info, last_extra, uploads, page_info, notInfo>>

\* the ingress page's entry for one child
GetChildData(child, reachable) ==
    /\ ipc = "serving"
    /\ page_info' = <<child, get_child_data(child, reachable)>>
    /\ UNCHANGED <<ipc, info_file, sensor_info, last_extra, uploads, info_reply, notInfo>>

InfoNext ==
    \/ \E child \in ChildNames, extra \in ExtraTexts, status \in PushStatuses :
          ProcessPdfForChild(child, extra, status)
    \/ \E child \in ChildNames : ProcessPdfRejected(child)
    \/ \E child \in ChildNames : GetInfo(child)
    \/ \E child \in ChildNames, reachable \in BOOLEAN : GetChildData(child, reachable)

(***************************************************************************)
(* startup_process, restore_sensor_from_state and load_sensor_state        *)
(***************************************************************************)

\* <child>_sensor.json on disk: missing; not JSON; not readable (IOError);
\* bytes that are not UTF-8 (read_text raises UnicodeDecodeError); a stored
\* payload; a JSON value that is falsy ({})
StateFiles == {"missing", "invalid json", "io error", "not utf-8", "payload", "empty"}

\* <child>.pdf on disk: missing; a weekly plan; a PDF without a table
\* (parse_pdf raises ValueError); a plan whose table has two columns
\* (df.iloc[..., 2] raises IndexError)
PdfFiles == {"missing", "plan", "no table", "two columns"}

\* outcome of a POST to Home Assistant: a status code, or RequestException
PostOutcomes == {"200", "201", "500", "exception"}

\* response.status_code in (200, 201)
Accepted == {"200", "201"}

\* load_sensor_state(child): the payload, None, or the exception that leaves it
load_sensor_state(file) ==
    CASE file = "missing" -> "None"
      [] file \in {"invalid json", "io error"} -> "None"
      [] file = "not utf-8" -> "raises"
      [] file = "payload" -> "payload"
      [] file = "empty" -> "empty"

\* restore_sensor_from_state(child), given the outcome of its POST
restore_sensor_from_state(file, outcome) ==
    /\ load_sensor_state(file) = "payload"
    /\ outcome \in Accepted

\* process_pdf_for_child(child) at startup: True, False, or the exception
\* that leaves it (only ValueError is caught)
process_pdf_for_child(pdf, outcome) ==
    CASE pdf = "missing" -> "False"
      [] pdf = "no table" -> "False"
      [] pdf = "two columns" -> "raises"
      [] pdf = "plan" -> IF outcome \in Accepted THEN "True" ELSE "False"

StartupIdle ==
    /\ spc = "off"
    /\ s_idx = 0
    /\ state_file = <<>>
    /\ state_file0 = <<>>
    /\ pdf_file = <<>>
    /\ handled = <<>>
    /\ restore_status = <<>>
    /\ s_pushed = <<>>

StartupInit ==
    /\ spc = "loop"
    /\ s_idx = 1
    /\ state_file \in [ChildNames -> StateFiles]
    /\ state_file0 = state_file
    /\ pdf_file \in [ChildNames -> PdfFiles]
    /\ handled = [c \in ChildNames |-> "not yet"]
    /\ restore_status = [c \in ChildNames |-> "none"]
    /\ s_pushed = <<>>

StartupChild == CHILDREN[s_idx]

StartupAt == spc = "loop" /\ s_idx <= Len(CHILDREN)

\* the restore succeeds: continue with the next child
StartupRestored(outcome) ==
    /\ StartupAt
    /\ load_sensor_state(state_file[StartupChild]) # "raises"
    /\ restore_sensor_from_state(state_file[StartupChild], outcome)
    /\ restore_status' = [restore_status EXCEPT ![StartupChild] = outcome]
    /\ s_pushed' = Append(s_pushed, <<StartupChild, "stored payload">>)
    /\ handled' = [handled EXCEPT ![StartupChild] = "restored"]
    /\ s_idx' = s_idx + 1
    /\ UNCHANGED <<spc, state_file, state_file0, pdf_file, notStartup>>

\* what the restore leaves behind when it fails: the POST is only made
\* for a truthy payload
RestoreFails(outcome) ==
    /\ load_sensor_state(state_file[StartupChild]) # "raises"
    /\ ~restore_sensor_from_state(state_file[StartupChild], outcome)
    /\ IF load_sensor_state(state_file[StartupChild]) = "payload"
         THEN /\ restore_status' = [restore_status EXCEPT ![StartupChild] = outcome]
              /\ outcome # "exception" =>
                    s_pushed' = Append(s_pushed, <<StartupChild, "stored payload">>)
              /\ outcome = "exception" => s_pushed' = s_pushed
         ELSE /\ restore_status' = restore_status
              /\ s_pushed' = s_pushed

\* the restore fails and there is no PDF
StartupNothingStored(outcome) ==
    /\ StartupAt
    /\ RestoreFails(outcome)
    /\ pdf_file[StartupChild] = "missing"
    /\ handled' = [handled EXCEPT ![StartupChild] = "nothing stored"]
    /\ s_idx' = s_idx + 1
    /\ UNCHANGED <<spc, state_file, state_file0, pdf_file, notStartup>>

\* the restore fails and the PDF is processed again; an accepted update is
\* saved as the new sensor state
StartupReprocessed(outcome, push) ==
    /\ StartupAt
    /\ RestoreFails(outcome)
    /\ pdf_file[StartupChild] # "missing"
    /\ process_pdf_for_child(pdf_file[StartupChild], push) # "raises"
    /\ state_file' = IF process_pdf_for_child(pdf_file[StartupChild], push) = "True"
                       THEN [state_file EXCEPT ![StartupChild] = "payload"]
                       ELSE state_file
    /\ handled' = [handled EXCEPT ![StartupChild] = "reprocessed"]
    /\ s_idx' = s_idx + 1
    /\ UNCHANGED <<spc, state_file0, pdf_file, notStartup>>

\* load_sensor_state raises: the exception leaves restore_sensor_from_state
\* and startup_process
StartupLoadRaises ==
    /\ StartupAt
    /\ load_sensor_state(state_file[StartupChild]) = "raises"
    /\ spc' = "crashed"
    /\ UNCHANGED <<s_idx, state_file, state_file0, pdf_file, handled, restore_status,
                   s_pushed, notStartup>>

\* process_pdf_for_child raises something other than ValueError: the
\* exception leaves startup_process
StartupReprocessRaises(outcome, push) ==
    /\ StartupAt
    /\ RestoreFails(outcome)
    /\ pdf_file[StartupChild] # "missing"
    /\ process_pdf_for_child(pdf_file[StartupChild], push) = "raises"
    /\ spc' = "crashed"
    /\ UNCHANGED <<s_idx, state_file, state_file0, pdf_file, handled, notStartup>>

\* every child was handled: the web server starts
StartupDone ==
    /\ spc = "loop"
    /\ s_idx > Len(CHILDREN)
    /\ spc' = "serving"
    /\ UNCHANGED <<s_idx, state_file, state_file0, pdf_file, handled, restore_status,
                   s_pushed, notStartup>>

StartupNext ==
    \/ \E outcome \in PostOutcomes : StartupRestored(outcome)
    \/ \E outcome \in PostOutcomes : StartupNothingStored(outcome)
    \/ \E outcome \in PostOutcomes, push \in PostOutcomes : StartupReprocessed(outcome, push)
    \/ StartupLoadRaises
    \/ \E outcome \in PostOutcomes, push \in PostOutcomes : StartupReprocessRaises(outcome, push)
    \/ StartupDone

(***************************************************************************)
(* get_kjopsscore (bobil_web.py): the buy score of one row                 *)
(***************************************************************************)

\* SQL NULL and Python None in a numeric column
Null == -999

\* parse_price on a numeric column value
parse_price(price_val) == IF price_val = Null THEN Null ELSE price_val

\* "not x" for None and for numbers
Falsy(x) == x = Null \/ x = 0

\* hoyeste after "if not hoyeste: hoyeste = pris"
Hoyeste(row) == IF Falsy(row.HoyestePris) THEN parse_price(row.Pris) ELSE row.HoyestePris

\* prisfall_pct computed whenever there is a peak
PrisfallTellerAlways(hoyeste, pris) ==
    IF hoyeste > 0 THEN (hoyeste - pris) * 100 ELSE 0

\* prisfall_pct as the fraction PrisfallTeller / PrisfallNevner
PrisfallTeller(hoyeste, pris) ==
    IF hoyeste > 0 /\ hoyeste > pris THEN (hoyeste - pris) * 100 ELSE 0

PrisfallNevner(hoyeste) == IF hoyeste > 0 THEN hoyeste ELSE 1

\* round(n / d) for d > 0: to the nearest integer, halves to the even one
Round(n, d) ==
    LET q == n \div d
        r == n % d
    IN  IF 2 * r < d THEN q
        ELSE IF 2 * r > d THEN q + 1
        ELSE IF q % 2 = 0 THEN q ELSE q + 1

\* score = round(prisfall_pct * (dager + 1) + AntallEndringer * 5 + dager)
KjopsScore(row) ==
    LET pris == parse_price(row.Pris)
        hoyeste == Hoyeste(row)
    IN  Round(PrisfallTeller(hoyeste, pris) * (row.dager + 1), PrisfallNevner(hoyeste))
            + row.AntallEndringer * 5 + row.dager

\* "if not pris or not dato: continue" and "if dager > 60: continue"
RowLeftOut(row) ==
    \/ Falsy(parse_price(row.Pris))
    \/ row.dager = Null
    \/ row.dager > SkipAfterDays

\* rows of the query: without recorded prices COUNT is 0 and MAX is NULL;
\* dager is Null for a date that does not parse
ScoreRows ==
    {row \in [Pris : {Null} \cup (0..MaxKroner),
              AntallEndringer : 0..MaxChanges,
              HoyestePris : {Null} \cup (1..MaxKroner),
              dager : {Null} \cup (-1..MaxDays) \cup {SkipAfterDays, SkipAfterDays + 1}] :
        row.AntallEndringer = 0 => row.HoyestePris = Null}

NoRow == [Pris |-> Null, AntallEndringer |-> 0, HoyestePris |-> Null, dager |-> Null]

ScoreIdle ==
    /\ gpc = "off"
    /\ g_row = NoRow
    /\ g_result = <<>>

ScoreInit ==
    /\ gpc = "row"
    /\ g_row \in ScoreRows
    /\ g_result = <<>>

\* the row is left out of the list
ScoreSkip ==
    /\ gpc = "row"
    /\ RowLeftOut(g_row)
    /\ gpc' = "done"
    /\ UNCHANGED <<g_row, g_result, notScore>>

\* the row's entry with DagerPaaMarkedet and KjopsScore
ScoreRow ==
    /\ gpc = "row"
    /\ ~RowLeftOut(g_row)
    /\ g_result' = <<[AntallEndringer |-> g_row.AntallEndringer,
                      DagerPaaMarkedet |-> g_row.dager,
                      KjopsScore |-> KjopsScore(g_row)]>>
    /\ gpc' = "done"
    /\ UNCHANGED <<g_row, notScore>>

ScoreNext == ScoreSkip \/ ScoreRow

(***************************************************************************)
(* run_scraper_background and its callers (bobil_web.py)                   *)
(***************************************************************************)

\* the scheduler thread
Scheduler == 0

\* the scheduler thread and the threads started by POST /scrape
Threads == 0..MaxRequests

\* how the body of the try ends: run_scraper returns; an Exception is raised
\* (with its text); SystemExit is raised (sys.exit in bobil_v2's module code)
Outcomes == {"returned", "ImportError", "timeout", "SystemExit"}

ExceptionTexts == {"ImportError", "timeout"}

\* a thread between "running = True" and the end of the finally clause
InRun(pc) == pc \in {"run", "returned", "clear", "raised", "finally"}

\* a thread that has read the flag as False and not yet written it
InWindow(pc) == pc = "passed"

ScraperIdle ==
    /\ tpc = <<>>
    /\ scraper_status = [last_run |-> 0, running |-> FALSE, error |-> "None"]
    /\ t_outcome = <<>>
    /\ calls = 0
    /\ successes = 0
    /\ raced = FALSE
    /\ api_reply = <<>>

\* the module is loaded, schedule_scraper has started its thread, the
\* server accepts requests; last_run 0 stands for None
ScraperInit ==
    /\ tpc = [t \in Threads |-> IF t = Scheduler THEN "call" ELSE "idle"]
    /\ scraper_status = [last_run |-> 0, running |-> FALSE, error |-> "None"]
    /\ t_outcome = [t \in Threads |-> "none"]
    /\ calls = 1
    /\ successes = 0
    /\ raced = FALSE
    /\ api_reply = <<>>

\* POST /scrape: a thread is started when the flag reads False
TriggerScrape(t) ==
    /\ t # Scheduler
    /\ tpc[t] = "idle"
    /\ calls < MaxCalls
    /\ ~scraper_status.running
    /\ tpc' = [tpc EXCEPT ![t] = "call"]
    /\ calls' = calls + 1
    /\ UNCHANGED <<scraper_status, t_outcome, successes, raced, api_reply, notScraper>>

\* the scheduler's wait is over: loop calls run_scraper_background
SchedulerWakes ==
    /\ tpc[Scheduler] = "idle"
    /\ calls < MaxCalls
    /\ tpc' = [tpc EXCEPT ![Scheduler] = "call"]
    /\ calls' = calls + 1
    /\ UNCHANGED <<scraper_status, t_outcome, successes, raced, api_reply, notScraper>>

\* "if scraper_status["running"]: return"
ReturnEarly(t) ==
    /\ tpc[t] = "call"
    /\ scraper_status.running
    /\ tpc' = [tpc EXCEPT ![t] = "idle"]
    /\ UNCHANGED <<scraper_status, t_outcome, calls, successes, raced, api_reply, notScraper>>

\* no guard: the call goes on whatever the flag reads
PassGuardAlways(t) ==
    /\ tpc[t] = "call"
    /\ tpc' = [tpc EXCEPT ![t] = "passed"]
    /\ raced' = (raced \/ \E u \in Threads \ {t} : InWindow(tpc[u]))
    /\ UNCHANGED <<scraper_status, t_outcome, calls, successes, api_reply, notScraper>>

\* the flag reads False: the guard is passed
PassGuard(t) ==
    /\ tpc[t] = "call"
    /\ ~scraper_status.running
    /\ tpc' = [tpc EXCEPT ![t] = "passed"]
    /\ raced' = (raced \/ \E u \in Threads \ {t} : InWindow(tpc[u]))
    /\ UNCHANGED <<scraper_status, t_outcome, calls, successes, api_reply, notScraper>>

\* scraper_status["running"] = True
SetRunning(t) ==
    /\ tpc[t] = "passed"
    /\ scraper_status' = [scraper_status EXCEPT !.running = TRUE]
    /\ tpc' = [tpc EXCEPT ![t] = "run"]
    /\ UNCHANGED <<t_outcome, calls, successes, raced, api_reply, notScraper>>

\* the import and run_scraper() end
ScraperEnds(t, outcome) ==
    /\ tpc[t] = "run"
    /\ t_outcome' = [t_outcome EXCEPT ![t] = outcome]
    /\ tpc' = [tpc EXCEPT ![t] =
                  CASE outcome = "returned" -> "returned"
                    [] outcome \in ExceptionTexts -> "raised"
                    [] outcome = "SystemExit" -> "finally"]
    /\ UNCHANGED <<scraper_status, calls, successes, raced, api_reply, notScraper>>

\* scraper_status["last_run"] = datetime.now()
SetLastRun(t) ==
    /\ tpc[t] = "returned"
    /\ successes' = successes + 1
    /\ scraper_status' = [scraper_status EXCEPT !.last_run = successes + 1]
    /\ tpc' = [tpc EXCEPT ![t] = "clear"]
    /\ UNCHANGED <<t_outcome, calls, raced, api_reply, notScraper>>

\* scraper_status["error"] = None
ClearError(t) ==
    /\ tpc[t] = "clear"
    /\ scraper_status' = [scraper_status EXCEPT !.error = "None"]
    /\ tpc' = [tpc EXCEPT ![t] = "finally"]
    /\ UNCHANGED <<t_outcome, calls, successes, raced, api_reply, notScraper>>

\* except Exception as e: scraper_status["error"] = str(e)
SetError(t) ==
    /\ tpc[t] = "raised"
    /\ scraper_status' = [scraper_status EXCEPT !.error = t_outcome[t]]
    /\ tpc' = [tpc EXCEPT ![t] = "finally"]
    /\ UNCHANGED <<t_outcome, calls, successes, raced, api_reply, notScraper>>

\* the finally clause left out
ResetRunningForgotten(t) ==
    /\ tpc[t] = "finally"
    /\ scraper_status' = scraper_status
    /\ tpc' = [tpc EXCEPT ![t] =
                  IF t = Scheduler /\ t_outcome[t] = "SystemExit" THEN "dead" ELSE "idle"]
    /\ UNCHANGED <<t_outcome, calls, successes, raced, api_reply, notScraper>>

\* finally: scraper_status["running"] = False; with SystemExit the thread
\* ends here, which ends the scheduler's loop
ResetRunning(t) ==
    /\ tpc[t] = "finally"
    /\ scraper_status' = [scraper_status EXCEPT !.running = FALSE]
    /\ tpc' = [tpc EXCEPT ![t] =
                  IF t = Scheduler /\ t_outcome[t] = "SystemExit" THEN "dead" ELSE "idle"]
    /\ UNCHANGED <<t_outcome, calls, successes, raced, api_reply, notScraper>>

\* GET /api/status
ApiStatus ==
    /\ \E t \in Threads : tpc[t] # "off"
    /\ api_reply' = <<scraper_status>>
    /\ UNCHANGED <<tpc, scraper_status, t_outcome, calls, successes, raced, notScraper>>

\* the steps of one thread inside run_scraper_background
ThreadStep(t) ==
    \/ ReturnEarly(t)
    \/ PassGuard(t)
    \/ SetRunning(t)
    \/ \E outcome \in Outcomes : ScraperEnds(t, outcome)
    \/ SetLastRun(t)
    \/ ClearError(t)
    \/ SetError(t)
    \/ ResetRunning(t)

ScraperNext ==
    \/ \E t \in Threads : TriggerScrape(t)
    \/ SchedulerWakes
    \/ \E t \in Threads : ReturnEarly(t)
    \/ \E t \in Threads : PassGuard(t)
    \/ \E t \in Threads : SetRunning(t)
    \/ \E t \in Threads, outcome \in Outcomes : ScraperEnds(t, outcome)
    \/ \E t \in Threads : SetLastRun(t)
    \/ \E t \in Threads : ClearError(t)
    \/ \E t \in Threads : SetError(t)
    \/ \E t \in Threads : ResetRunning(t)
    \/ ApiStatus

(***************************************************************************)
(* upload_pdf, process_existing and the files of a child (ukenytt.py)      *)
(***************************************************************************)

\* MAX_PDF_SIZE = 10 * 1024 * 1024
MAX_PDF_SIZE == 10485760

\* request.args.get / request.headers.get of a name that is not sent
NoKey == "<none>"

\* values of UKENYTT_API_KEY: not configured, configured
ApiKeys == {"", "k1"}

\* the api_key query parameter and the X-API-Key header of a request: none
\* sent, the header alone, an empty parameter, the two disagreeing
KeysSent ==
    {<<NoKey, NoKey>>, <<NoKey, "k1">>, <<NoKey, "bad">>, <<"", "k1">>,
     <<"k1", "bad">>, <<"bad", "k1">>}

\* request.args.get("api_key") or request.headers.get("X-API-Key"), the
\* header first
provided_key_header_first(query, header) ==
    IF header \notin {NoKey, ""} THEN header ELSE query

\* request.args.get("api_key") or request.headers.get("X-API-Key")
provided_key(query, header) ==
    IF query \notin {NoKey, ""} THEN query ELSE header

\* if API_KEY: ... if provided_key != API_KEY: return 401
KeyRejected(key, query, header) ==
    key # "" /\ provided_key(query, header) # key

\* the child parameter after strip(): missing, two configured children (one
\* in another casing), a child that is not configured
ChildParams == {"", "Frida", "oskar", "ukjent"}

\* str.lower() of a child parameter
ChildLower(c) == IF c = "Frida" THEN "frida" ELSE c

\* CHILDREN[children_lower.index(child_name.lower())]
ResolveChild(c) ==
    CHILDREN[CHOOSE i \in 1..Len(CHILDREN) : CHILDREN[i] = ChildLower(c)]

\* get_pdf_path(child_name).stem: _safe_file_name of the child
ChildStem(c) ==
    IF c = "frida" THEN <<"f", "r", "i", "d", "a">> ELSE <<"o", "s", "k", "a", "r">>

\* how the body arrives: no "file" part and no PDF content type, a raw body
\* with a PDF content type, a "file" part of multipart/form-data
BodyKinds == {"none", "raw", "multipart"}

\* file.filename of the "file" part
UploadNames ==
    {<<>>, <<" ">>, <<"u", "k", "e", "5", ".", "p", "d", "f">>,
     <<"p", "l", "a", "n", ".", "p", "d", "f">>}

\* no PDF stored for a child
NoPdf == [size |-> 0, magic |-> FALSE, text |-> <<>>, extra |-> <<>>, parses |-> FALSE]

\* file_data: its length, whether it starts with %PDF, the text
\* extract_pdf_text reads from it, the text extract_extra_text keeps, and
\* whether parse_pdf finds the table (else it raises ValueError)
UploadBodies ==
    {[size |-> MAX_PDF_SIZE, magic |-> TRUE,
      text |-> <<"U", "k", "e", " ", "1", "2">>, extra |-> <<"a">>, parses |-> TRUE],
     [size |-> 1000, magic |-> TRUE, text |-> <<>>, extra |-> <<>>,
      parses |-> FALSE],
     [size |-> MAX_PDF_SIZE + 1, magic |-> TRUE, text |-> <<>>, extra |-> <<>>,
      parses |-> TRUE],
     [size |-> 1000, magic |-> FALSE, text |-> <<>>, extra |-> <<>>,
      parses |-> FALSE]}

\* the requests to POST /upload: the body kind, file.filename of the "file"
\* part, and the bytes received
UploadRequests ==
    {<<"none", <<>>, NoPdf>>}
        \cup {<<"raw", <<>>, b>> : b \in UploadBodies}
        \cup {<<"multipart", n, b>> : n \in UploadNames, b \in UploadBodies}

\* no sensor JSON stored for a child
NoPayload == [state |-> -1, barn |-> "", info |-> NoneVal]

\* the validation of upload_pdf, in its order: the answer of the first
\* check that fails, "ok" when all pass
upload_validation(key, query, header, child, kind, name, body) ==
    IF KeyRejected(key, query, header) THEN "401"
    ELSE IF child = "" THEN "400 child missing"
    ELSE IF ChildLower(child) \notin ChildNames THEN "400 unknown child"
    ELSE IF kind = "none" THEN "400 no file"
    ELSE IF kind = "multipart" /\ name = <<>> THEN "400 empty filename"
    ELSE IF body.size > MAX_PDF_SIZE THEN "400 too large"
    ELSE IF ~body.magic THEN "400 not a PDF"
    ELSE "ok"

\* the checks of process_existing
process_validation(key, query, header, child) ==
    IF KeyRejected(key, query, header) THEN "401"
    ELSE IF child # "" /\ ChildLower(child) \notin ChildNames THEN "400 unknown child"
    ELSE "ok"

\* a value Python treats as true: neither None nor the empty string
Truthy(s) == s \notin {NoneVal, <<>>}

\* str.strip() of a file name
RECURSIVE StripSpaces(_)
StripSpaces(s) ==
    IF s = <<>> THEN s
    ELSE IF Head(s) = " " THEN StripSpaces(Tail(s))
    ELSE IF s[Len(s)] = " " THEN StripSpaces(SubSeq(s, 1, Len(s) - 1))
    ELSE s

\* Path(name).stem: the name without its last suffix
PathStem(name) ==
    LET dots == {i \in 2..(Len(name) - 1) : name[i] = "."}
    IN  IF dots = {} THEN name
        ELSE SubSeq(name, 1, (CHOOSE i \in dots : \A k \in dots : k <= i) - 1)

\* get_original_filename(child_name) on the stored file name
get_original_filename(stored) ==
    IF stored = NoneVal THEN NoneVal ELSE StripSpaces(stored)

\* the file name of the current request only
effective_filename_upload_only(original_filename, stored) == original_filename

\* original_filename or get_original_filename(child_name)
effective_filename(original_filename, stored) ==
    IF Truthy(original_filename) THEN original_filename
    ELSE get_original_filename(stored)

\* week_number of process_pdf_for_child
WeekNumber(child, pdf, original_filename, stored) ==
    LET effective == effective_filename(original_filename, stored)
    IN  IF Truthy(effective)
        THEN extract_week_number(PathStem(effective), <<>>, pdf.text)
        ELSE extract_week_number(ChildStem(child), <<>>, pdf.text)

\* int(week_number) of a string of digits
RECURSIVE DigitsValue(_)
DigitsValue(ds) ==
    IF ds = <<>> THEN 0
    ELSE 10 * DigitsValue(SubSeq(ds, 1, Len(ds) - 1)) + DigitVal(ds[Len(ds)])

\* the payload update_home_assistant_sensor posts
SensorPayload(child, week_number, extra) ==
    [state |-> DigitsValue(week_number), barn |-> child, info |-> InfoTruncated(extra)]

\* The sensor JSON written whatever Home Assistant answers.
SensorFileAfterAlways(file, payload, outcome) == payload

\* save_sensor_state in the branch of status 200 and 201 only
SensorFileAfter(file, payload, outcome) ==
    IF outcome \in Accepted THEN payload ELSE file

\* process_pdf_for_child(child, original_filename) on the files of the
\* child: what it returns, the files afterwards, the payload last accepted
\* by Home Assistant, and the number of requests sent
ProcessResult(child, pdf, stored, info_text, sensor, pushed, original_filename, outcome) ==
    IF pdf = NoPdf \/ ~pdf.parses
    THEN [success |-> FALSE, info |-> info_text, sensor |-> sensor, pushed |-> pushed,
          sent |-> 0]
    ELSE LET payload == SensorPayload(child,
                            WeekNumber(child, pdf, original_filename, stored), pdf.extra)
         IN  [success |-> outcome \in Accepted,
              info |-> InfoFileAfter(info_text, pdf.extra),
              sensor |-> SensorFileAfter(sensor, payload, outcome),
              pushed |-> IF outcome \in Accepted THEN payload ELSE pushed,
              sent |-> 1]

UploadIdle ==
    /\ posts = 0
    /\ api_key = ""
    /\ pdf_store = <<>>
    /\ name_store = <<>>
    /\ info_store = <<>>
    /\ sensor_store = <<>>
    /\ last_pushed = <<>>
    /\ ha_requests = 0
    /\ u_reply = "off"
    /\ u_kind = "off"
    /\ u_child = "off"

\* the server accepts requests; /data holds no file of a child yet
UploadInit ==
    /\ posts = 0
    /\ api_key \in ApiKeys
    /\ pdf_store = [c \in ChildNames |-> NoPdf]
    /\ name_store = [c \in ChildNames |-> NoneVal]
    /\ info_store = [c \in ChildNames |-> NoneVal]
    /\ sensor_store = [c \in ChildNames |-> NoPayload]
    /\ last_pushed = [c \in ChildNames |-> NoPayload]
    /\ ha_requests = 0
    /\ u_reply = "none"
    /\ u_kind = "none"
    /\ u_child = ""

\* The PDF written before the request is validated.
UploadRejectedStoresPdf(query, header, child, kind, name, body) ==
    /\ u_reply # "off" /\ posts < MaxPosts
    /\ upload_validation(api_key, query, header, child, kind, name, body) # "ok"
    /\ posts' = posts + 1
    /\ u_reply' = upload_validation(api_key, query, header, child, kind, name, body)
    /\ u_kind' = kind
    /\ u_child' = ""
    /\ pdf_store' = IF ChildLower(child) \in ChildNames
                    THEN [pdf_store EXCEPT ![ResolveChild(child)] = body]
                    ELSE pdf_store
    /\ UNCHANGED <<api_key, name_store, info_store, sensor_store,
                   last_pushed, ha_requests, notUpload>>

\* POST /upload answered 401 or 400 by one of the checks
UploadRejected(query, header, child, kind, name, body) ==
    /\ u_reply # "off" /\ posts < MaxPosts
    /\ upload_validation(api_key, query, header, child, kind, name, body) # "ok"
    /\ posts' = posts + 1
    /\ u_reply' = upload_validation(api_key, query, header, child, kind, name, body)
    /\ u_kind' = kind
    /\ u_child' = ""
    /\ UNCHANGED <<api_key, pdf_store, name_store, info_store, sensor_store,
                   last_pushed, ha_requests, notUpload>>

\* POST /upload: the checks pass, write_bytes raises IOError when the file is
\* opened, answered 500
UploadWriteFails(query, header, child, kind, name, body) ==
    /\ u_reply # "off" /\ posts < MaxPosts
    /\ upload_validation(api_key, query, header, child, kind, name, body) = "ok"
    /\ posts' = posts + 1
    /\ u_reply' = "500 not stored"
    /\ u_kind' = kind
    /\ u_child' = ResolveChild(child)
    /\ UNCHANGED <<api_key, pdf_store, name_store, info_store, sensor_store,
                   last_pushed, ha_requests, notUpload>>

\* POST /upload: the checks pass, the PDF and the file name of a multipart
\* upload are stored, process_pdf_for_child runs on them
UploadStored(query, header, child, kind, name, body, outcome) ==
    /\ u_reply # "off" /\ posts < MaxPosts
    /\ upload_validation(api_key, query, header, child, kind, name, body) = "ok"
    /\ LET c == ResolveChild(child)
           original_filename == IF kind = "multipart" THEN name ELSE NoneVal
           stored == IF Truthy(original_filename) THEN original_filename
                     ELSE name_store[c]
           r == ProcessResult(c, body, stored, info_store[c], sensor_store[c],
                              last_pushed[c], original_filename, outcome)
       IN  /\ pdf_store' = [pdf_store EXCEPT ![c] = body]
           /\ name_store' = [name_store EXCEPT ![c] = stored]
           /\ info_store' = [info_store EXCEPT ![c] = r.info]
           /\ sensor_store' = [sensor_store EXCEPT ![c] = r.sensor]
           /\ last_pushed' = [last_pushed EXCEPT ![c] = r.pushed]
           /\ ha_requests' = ha_requests + r.sent
           /\ u_reply' = IF r.success THEN "200" ELSE "500"
    /\ posts' = posts + 1
    /\ u_kind' = kind
    /\ u_child' = ResolveChild(child)
    /\ UNCHANGED <<api_key, notUpload>>

\* children_to_process of process_existing
ChildrenToProcess(child) ==
    IF child = "" THEN ChildNames
    ELSE IF ChildLower(child) \in ChildNames THEN {ResolveChild(child)}
    ELSE {}

\* POST /process answered 401 or 400
ProcessRejected(query, header, child) ==
    /\ u_reply # "off" /\ posts < MaxPosts
    /\ process_validation(api_key, query, header, child) # "ok"
    /\ posts' = posts + 1
    /\ u_reply' = process_validation(api_key, query, header, child)
    /\ u_kind' = "process"
    /\ u_child' = ""
    /\ UNCHANGED <<api_key, pdf_store, name_store, info_store, sensor_store,
                   last_pushed, ha_requests, notUpload>>

\* POST /process: process_pdf_for_child(child) for the child named, for
\* every child when none is named
ProcessExisting(query, header, child, outcomes) ==
    /\ u_reply # "off" /\ posts < MaxPosts
    /\ process_validation(api_key, query, header, child) = "ok"
    /\ LET children_to_process == ChildrenToProcess(child)
           r == [c \in children_to_process |->
                    ProcessResult(c, pdf_store[c], name_store[c], info_store[c],
                                  sensor_store[c], last_pushed[c], NoneVal, outcomes[c])]
           after(old, field) ==
               [c \in ChildNames |->
                   IF c \in children_to_process THEN r[c][field] ELSE old[c]]
           Sent[i \in 0..Len(CHILDREN)] ==
               IF i = 0 THEN 0
               ELSE Sent[i - 1] + (IF CHILDREN[i] \in children_to_process
                                   THEN r[CHILDREN[i]].sent ELSE 0)
       IN  /\ info_store' = after(info_store, "info")
           /\ sensor_store' = after(sensor_store, "sensor")
           /\ last_pushed' = after(last_pushed, "pushed")
           /\ ha_requests' = ha_requests + Sent[Len(CHILDREN)]
           /\ u_reply' = IF \A c \in children_to_process : r[c].success
                         THEN "200" ELSE "207"
    /\ posts' = posts + 1
    /\ u_kind' = "process"
    /\ u_child' = IF child = "" THEN "all" ELSE ResolveChild(child)
    /\ UNCHANGED <<api_key, pdf_store, name_store, notUpload>>

\* one request to POST /upload with the given parameters and body
UploadStep(query, header, child, kind, name, body) ==
    \/ UploadRejected(query, header, child, kind, name, body)
    \/ UploadWriteFails(query, header, child, kind, name, body)
    \/ \E outcome \in PostOutcomes :
           UploadStored(query, header, child, kind, name, body, outcome)

\* one request to POST /process
ProcessStep(query, header, child) ==
    \/ ProcessRejected(query, header, child)
    \/ \E outcomes \in [ChildrenToProcess(child) -> PostOutcomes] :
           ProcessExisting(query, header, child, outcomes)

UploadNext ==
    \/ \E keys \in KeysSent, child \in ChildParams, req \in UploadRequests :
           UploadStep(keys[1], keys[2], child, req[1], req[2], req[3])
    \/ \E keys \in KeysSent, child \in ChildParams :
           ProcessStep(keys[1], keys[2], child)

\* none of the other add-ons runs
AddonsIdle == WebhookIdle /\ WeekIdle /\ ParseIdle /\ SensorIdle /\ InfoIdle /\ StartupIdle /\ ScoreIdle /\ ScraperIdle /\ UploadIdle

\* none of the scraper's components runs
BobilIdle ==
    /\ PriceIdle /\ FetchIdle /\ TablesIdle /\ DbIdle /\ EnrichIdle /\ LegacyIdle
    /\ MainIdle

(***************************************************************************)
(* Specifications                                                          *)
(***************************************************************************)

InitPrice ==
    PriceInit /\ FetchIdle /\ TablesIdle /\ DbIdle /\ EnrichIdle /\ LegacyIdle /\ MainIdle
        /\ AddonsIdle

SpecPrice == InitPrice /\ [][PriceNext]_vars

InitFetch ==
    FetchInit /\ PriceIdle /\ TablesIdle /\ DbIdle /\ EnrichIdle /\ LegacyIdle /\ MainIdle
        /\ AddonsIdle

SpecFetch == InitFetch /\ [][FetchNext]_vars

InitDb ==
    TablesInit /\ DbInit /\ PriceIdle /\ FetchIdle /\ EnrichIdle /\ LegacyIdle /\ MainIdle
        /\ AddonsIdle

SpecDb == InitDb /\ [][DbNext]_vars

InitEnrich ==
    EnrichInit /\ PriceIdle /\ FetchIdle /\ TablesIdle /\ DbIdle /\ LegacyIdle /\ MainIdle
        /\ AddonsIdle

SpecEnrich == InitEnrich /\ [][EnrichNext]_vars

InitLegacy ==
    TablesInit /\ LegacyInit /\ PriceIdle /\ FetchIdle /\ DbIdle /\ EnrichIdle /\ MainIdle
        /\ AddonsIdle

SpecLegacy == InitLegacy /\ [][LegacyNext]_vars

InitMain ==
    MainInit /\ PriceIdle /\ DbIdle /\ EnrichIdle /\ LegacyIdle /\ AddonsIdle

\* Every await of the run returns (the HTTP client and the database connection
\* time out) and every loop steps on, so an enabled step is eventually taken.
SpecMain == InitMain /\ [][MainNext]_vars /\ WF_vars(MainNext)

InitWebhook ==
    WebhookInit /\ BobilIdle
        /\ WeekIdle /\ ParseIdle /\ SensorIdle
        /\ InfoIdle /\ StartupIdle /\ ScoreIdle
        /\ ScraperIdle /\ UploadIdle

SpecWebhook == InitWebhook /\ [][WebhookNext]_vars

InitWeek ==
    WeekInit /\ BobilIdle
        /\ WebhookIdle /\ ParseIdle /\ SensorIdle
        /\ InfoIdle /\ StartupIdle /\ ScoreIdle
        /\ ScraperIdle /\ UploadIdle

SpecWeek == InitWeek /\ [][WeekNext]_vars

InitParse ==
    ParseInit /\ BobilIdle
        /\ WebhookIdle /\ WeekIdle /\ SensorIdle
        /\ InfoIdle /\ StartupIdle /\ ScoreIdle
        /\ ScraperIdle /\ UploadIdle

SpecParse == InitParse /\ [][ParseNext]_vars

InitSensor ==
    SensorInit /\ BobilIdle
        /\ WebhookIdle /\ WeekIdle /\ ParseIdle
        /\ InfoIdle /\ StartupIdle /\ ScoreIdle
        /\ ScraperIdle /\ UploadIdle

SpecSensor == InitSensor /\ [][SensorNext]_vars

InitInfo ==
    InfoInit /\ BobilIdle
        /\ WebhookIdle /\ WeekIdle /\ ParseIdle
        /\ SensorIdle /\ StartupIdle /\ ScoreIdle
        /\ ScraperIdle /\ UploadIdle

SpecInfo == InitInfo /\ [][InfoNext]_vars

InitStartup ==
    StartupInit /\ BobilIdle
        /\ WebhookIdle /\ WeekIdle /\ ParseIdle
        /\ SensorIdle /\ InfoIdle /\ ScoreIdle
        /\ ScraperIdle /\ UploadIdle

SpecStartup == InitStartup /\ [][StartupNext]_vars

InitScore ==
    ScoreInit /\ BobilIdle
        /\ WebhookIdle /\ WeekIdle /\ ParseIdle
        /\ SensorIdle /\ InfoIdle /\ StartupIdle
        /\ ScraperIdle /\ UploadIdle

SpecScore == InitScore /\ [][ScoreNext]_vars

InitScraper ==
    ScraperInit /\ BobilIdle
        /\ WebhookIdle /\ WeekIdle /\ ParseIdle
        /\ SensorIdle /\ InfoIdle /\ StartupIdle
        /\ ScoreIdle /\ UploadIdle

SpecScraper == InitScraper /\ [][ScraperNext]_vars /\ \A t \in Threads : WF_vars(ThreadStep(t))

InitUpload ==
    UploadInit /\ BobilIdle
        /\ WebhookIdle /\ WeekIdle /\ ParseIdle
        /\ SensorIdle /\ InfoIdle /\ StartupIdle
        /\ ScoreIdle /\ ScraperIdle

SpecUpload == InitUpload /\ [][UploadNext]_vars

(***************************************************************************)
(* Properties of fetch_all_pages                                           *)
(***************************************************************************)

Finnkodes(list) == [i \in 1..Len(list) |-> list[i].Finnkode]

NoRepeats(s) == \A i, j \in 1..Len(s) : s[i] = s[j] => i = j

Elems(s) == {s[i] : i \in 1..Len(s)}

\* range(0, total, size) as a sequence
AllOffsets(size, total) ==
    [k \in 1..((total + size - 1) \div size) |-> (k - 1) * size]

\* C1 as stated: the returned list holds each Finnkode once, in order of first
\* appearance, and holds every id that appeared with a non-empty id and url on
\* some successfully fetched page.
C1_EveryRawIdOnce ==
    fpc = "done" => /\ NoRepeats(Finnkodes(all_ads))
                    /\ Finnkodes(all_ads) = rawFirst

\* C1 amended: the list holds each Finnkode once, in order of first appearance,
\* and holds exactly the ids that appeared with a non-empty id and url on a
\* successfully fetched page that extract_info_from_json accepts (its first doc
\* has the keys id, heading and canonical_url and no kept doc makes the
\* extraction raise); seen_ids is the set of those ids.
C1_EveryExtractedIdOnce ==
    /\ NoRepeats(Finnkodes(all_ads))
    /\ Finnkodes(all_ads) = extFirst
    /\ seen_ids = Elems(extFirst)

\* C1 witness: a finished run over three pages in which a repeated listing
\* was dropped and a page with usable ids was rejected as a whole.
C1_Witness ==
    /\ fpc = "done"
    /\ Len(requested) >= 3
    /\ dupDropped
    /\ Len(all_ads) >= 2
    /\ rawFirst # extFirst

\* C9 as stated: after a page other than the first came back with an empty
\* docs list, no further offset is requested.
C9_StopsOnEmptyPage ==
    \A o \in emptyAt : o > 0 => \A i \in 1..Len(requested) : requested[i] <= o

\* C9 amended: an empty docs list on a page after the first does not end the
\* pagination: every offset below total_matches is still requested; only a
\* first page without docs ends it at once, with an empty result.
C9_EmptyPageContinues ==
    fpc = "done" =>
        /\ (emptyAt \ {0} # {} => requested = AllOffsets(page_size, total_matches))
        /\ (0 \in emptyAt => requested = <<0>> /\ all_ads = <<>>)

\* C9 witness: a finished run in which an empty page was followed by a
\* further request whose listings are in the result.
C9_Witness ==
    /\ fpc = "done"
    /\ page_size = 1
    /\ emptyAt = {1}
    /\ requested = <<0, 1, 2>>
    /\ Len(all_ads) = 2

\* C10: when the fetch of a page other than the first fails, every offset
\* below total_matches is still requested and every listing extracted from a
\* successfully fetched page, earlier or later, is in the result.
C10_FailedPageContinues ==
    (fpc = "done" /\ failedAt \ {0} # {}) =>
        /\ requested = AllOffsets(page_size, total_matches)
        /\ Elems(extFirst) \subseteq Elems(Finnkodes(all_ads))

\* C10 witness: pages of one doc, the second request failed, and the result
\* holds two listings: one of the first page and one of the page after the
\* failure.
C10_Witness ==
    /\ fpc = "done"
    /\ page_size = 1
    /\ failedAt = {1}
    /\ requested = <<0, 1, 2>>
    /\ Len(all_ads) = 2

(***************************************************************************)
(* Properties of normalize_and_format_price                                *)
(***************************************************************************)

\* C3 as stated: for every non-negative integer price n, normalising the
\* formatted string of n yields n again.
C3_RoundTrip ==
    (ppc = "normalized" /\ IsInt(price_in)) => price_out = price_in

\* The round trip for the integers a double holds exactly (n <= 2^53).
C3_RoundTripBelowTwoPow53 ==
    (ppc = "normalized" /\ IsInt(price_in) /\ ~IntLess(TwoPow53, price_in))
        => price_out = price_in

\* Formatting differences alone never change the normalised integer: the
\* formatted string of any parsable input normalises to what the input
\* normalises to, for integers up to 2^53.
C3_FormatInsensitive ==
    (/\ ppc = "normalized"
     /\ normalize_and_format_price(price_in, FALSE) # NoneVal
     /\ ~IntLess(TwoPow53, normalize_and_format_price(price_in, FALSE)))
        => price_out = normalize_and_format_price(price_in, FALSE)


(***************************************************************************)
(* Properties of update_database (bobil_v2.py)                             *)
(***************************************************************************)

Count(seq, Test(_)) == Cardinality({i \in 1..Len(seq) : Test(seq[i])})

\* rows appended to prisendringer since the run began, for one Finnkode
NewPriceRows(finnkode) ==
    {k \in (Len(pris0) + 1)..Len(prisendringer) :
        prisendringer[k].Finnkode = finnkode}

Parsable(ad) == normalize_and_format_price(ad.Pris, FALSE) # NoneVal

\* a live run that ended with its commit
Committed == dpc = "done" /\ ~aborted /\ ~dry_run

\* C2 as stated: for a fetched record whose id is stored with a different
\* normalised price, the run appends exactly one prisendringer row for that id
\* and the bobil row holds the new price afterwards.
C2_PriceChangeRowAppended ==
    Committed =>
        \A i \in 1..Len(verdicts) :
            (verdicts[i].price_differs /\ verdicts[i].written) =>
                /\ Cardinality(NewPriceRows(ads[i].Finnkode)) = 1
                /\ \E r \in bobil :
                      /\ r.Finnkode = ads[i].Finnkode
                      /\ r.Pris = normalize_and_format_price(ads[i].Pris, FALSE)

\* The half of C2 that update_database does: the bobil row holds the new price.
C2_RowHoldsNewPrice ==
    Committed =>
        \A i \in 1..Len(verdicts) :
            (verdicts[i].price_differs /\ verdicts[i].written) =>
                \E r \in bobil :
                    /\ r.Finnkode = ads[i].Finnkode
                    /\ r.Pris = normalize_and_format_price(ads[i].Pris, FALSE)

\* update_database never touches prisendringer.
C2_NoPriceRowEver == prisendringer = pris0

\* C4: in dry-run mode update_database issues no INSERT/UPDATE and no commit
\* and leaves bobil and prisendringer as they were, while every record is still
\* looked up and compared when the database answers.
C4_DryRunWritesNothing ==
    dry_run =>
        /\ sql_writes = 0
        /\ sql_commits = 0
        /\ bobil = bobil0
        /\ txn \in {{}, bobil0}
        /\ prisendringer = pris0
        /\ (dpc = "done" /\ ~aborted) =>
              /\ Len(verdicts) = Len(ads)
              /\ \A i \in 1..Len(ads) :
                    Parsable(ads[i]) => verdicts[i].cls # "skipped"

\* C4 witness: a finished dry run that found a new and a changed listing.
C4_Witness ==
    /\ dry_run
    /\ dpc = "done"
    /\ ~aborted
    /\ nye_annonser >= 1
    /\ endrede_annonser >= 1

CountersMatch ==
    /\ nye_annonser = Count(verdicts, LAMBDA v : v.cls = "new")
    /\ endrede_annonser = Count(verdicts, LAMBDA v : v.cls = "changed")
    /\ uendrede_annonser = Count(verdicts, LAMBDA v : v.cls = "unchanged")
    /\ \A i \in 1..Len(verdicts) : verdicts[i].cls = "skipped" <=> ~Parsable(ads[i])
    /\ (dpc = "done" /\ ~aborted) =>
          nye_annonser + endrede_annonser + uendrede_annonser
              + Count(verdicts, LAMBDA v : v.cls = "skipped") = Len(ads)

\* C5 as stated: a record with a parsable price is new iff no row is stored,
\* changed iff a row is stored and the normalised price differs, unchanged iff
\* a row is stored and the normalised price is equal; the counters add up.
C5_ChangedIffPriceDiffers ==
    /\ CountersMatch
    /\ \A i \in 1..Len(verdicts) :
          verdicts[i].cls # "skipped" =>
              /\ verdicts[i].cls = "new" <=> ~verdicts[i].stored
              /\ verdicts[i].cls = "changed" <=>
                     (verdicts[i].stored /\ verdicts[i].price_differs)
              /\ verdicts[i].cls = "unchanged" <=>
                     (verdicts[i].stored /\ ~verdicts[i].price_differs)

\* C5 amended: a record with a parsable price is new iff no row is stored,
\* changed iff a row is stored and at least one compared column differs (the
\* price as a normalised integer, every other column as a string), unchanged
\* iff a row is stored and no compared column differs; skipped records are in
\* no counter, and in a run that reaches its summary
\* new + changed + unchanged + skipped is the number of records.
C5_ChangedIffAnyColumnDiffers ==
    /\ CountersMatch
    /\ \A i \in 1..Len(verdicts) :
          verdicts[i].cls # "skipped" =>
              /\ verdicts[i].cls = "new" <=> ~verdicts[i].stored
              /\ verdicts[i].cls = "changed" <=>
                     /\ verdicts[i].stored
                     /\ verdicts[i].price_differs \/ verdicts[i].other_differs
              /\ verdicts[i].cls = "unchanged" <=>
                     /\ verdicts[i].stored
                     /\ ~verdicts[i].price_differs
                     /\ ~verdicts[i].other_differs

\* C5 witness: a summary over two records, one skipped and one counted as
\* changed although its price equals the stored price.
C5_Witness ==
    /\ dpc = "done"
    /\ ~aborted
    /\ Len(ads) = 2
    /\ \E i, j \in 1..2 :
          /\ verdicts[i].cls = "skipped"
          /\ verdicts[j].cls = "changed"
          /\ ~verdicts[j].price_differs
          /\ verdicts[j].other_differs

\* the rows of one Finnkode are those from before the run
Untouched(finnkode) ==
    /\ SelectRow(bobil, finnkode) = SelectRow(bobil0, finnkode)
    /\ dpc # "connect" => SelectRow(txn, finnkode) = SelectRow(bobil0, finnkode)
    /\ NewPriceRows(finnkode) = {}

\* C6: a record whose price does not normalise is skipped: the pass writes
\* nothing and the loop goes on with the next record; no row of that id is
\* written or changed in bobil or prisendringer; and a live run that the
\* database lets finish has compared every other record and stored each one
\* whose upsert was executed.
C6_SkipStep ==
    (dpc = "loop" /\ idx <= Len(ads) /\ ~Parsable(ads[idx])) =>
        /\ dpc' = "loop"
        /\ idx' = idx + 1
        /\ ~aborted'
        /\ UNCHANGED <<bobil, txn, prisendringer, sql_writes>>

C6_SkippedUntouchedOthersStored ==
    /\ \A i \in 1..Len(verdicts) :
          verdicts[i].cls = "skipped" => Untouched(ads[i].Finnkode)
    /\ Committed =>
          /\ Len(verdicts) = Len(ads)
          /\ \A i \in 1..Len(ads) :
                Parsable(ads[i]) =>
                    /\ verdicts[i].cls # "skipped"
                    /\ verdicts[i].written =>
                          NewValues(ads[i],
                                    normalize_and_format_price(ads[i].Pris, FALSE))
                              \in bobil

C6_SkipIsNotFatal == [][C6_SkipStep]_vars /\ []C6_SkippedUntouchedOthersStored

\* C6 witness: a committed run whose first record was skipped, although a row
\* of its id is stored, and whose second record was written.
C6_Witness ==
    /\ Committed
    /\ Len(ads) = 2
    /\ verdicts[1].cls = "skipped"
    /\ SelectRow(bobil0, ads[1].Finnkode) # {}
    /\ verdicts[2].cls \in {"new", "changed"}
    /\ verdicts[2].written


(***************************************************************************)
(* Properties of the detail enrichment                                     *)
(***************************************************************************)

\* C7 as stated, for fetch_and_combine_data of bobil.py: the number of detail
\* fetches in flight never exceeds the cap of five.
C7_InFlightWithinCap == InFlight(l_task) <= MaxConcurrent

\* C7 for fetch_and_combine_data of bobil_v2.py, which takes the semaphore.
C7_InFlightWithinCapV2 ==
    /\ InFlight(e_task) <= MaxConcurrent
    /\ semaphore + Cardinality({i \in 1..Len(e_task) :
                                   e_task[i] \in {"sleeping", "fetching"}})
          = MaxConcurrent

\* more listings than slots, the cap reached and a task held back by it
C7_WitnessV2 ==
    /\ Len(e_task) > MaxConcurrent
    /\ InFlight(e_task) = MaxConcurrent
    /\ \E i \in 1..Len(e_task) : e_task[i] = "pending"

\* C8 as stated, for bobil.py: a failed detail fetch or parse does not fail the
\* batch: the result keeps one entry per listing in input order, the failed
\* listing carries no details, and the persist step goes through the listings
\* without the run being aborted.
C8_FailedDetailKeepsRun ==
    /\ lpc # "gather" =>
          /\ Finnkodes(l_ads) = [i \in 1..Len(l_ads) |-> i]
          /\ \A i \in 1..Len(l_ads) :
                l_outcome[i] \in {"failed", "parse_error"} =>
                    l_ads[i].Detaljer \in {EmptyDict, NoneDict}
    /\ lpc # "crashed"

\* C8 for fetch_and_combine_data of bobil_v2.py: one entry per listing in input
\* order, and a failed fetch or parse leaves the empty dict that
\* update_database reads with .get.
C8_FailedDetailKeepsBatchV2 ==
    epc = "returned" =>
        /\ Finnkodes(e_ads) = [i \in 1..Len(e_ads) |-> i]
        /\ \A i \in 1..Len(e_ads) :
              /\ e_outcome[i] \in {"failed", "parse_error"}
                    => e_ads[i].Detaljer = EmptyDict
              /\ e_outcome[i] = "parsed" => e_ads[i].Detaljer = FullDetails

(***************************************************************************)
(* Properties of the whole run                                             *)
(***************************************************************************)

\* the requests of fetch_all_pages so far are a prefix of what it may request
C11_RequestsInOrder ==
    /\ inflight <= 1
    /\ Len(requested) >= 1 => requested[1] = 0
    /\ \A i \in 2..Len(requested) :
          /\ requested[i] = (i - 1) * page_size
          /\ requested[i] < total_matches
          /\ requested[i - 1] < requested[i]
    /\ fpc = "done" =>
          requested = IF page_size = 0 THEN <<0>>
                      ELSE AllOffsets(page_size, total_matches)

\* after a failed first request nothing else is requested, fetched or written
C11_FirstFailureEndsRun ==
    0 \in failedAt =>
        /\ requested = <<0>>
        /\ all_ads = <<>>
        /\ epc = "off" /\ e_task = <<>>
        /\ dpc = "off" /\ sql_writes = 0 /\ sql_commits = 0
        /\ bobil = bobil0 /\ prisendringer = pris0

\* C11: fetch_all_pages requests offset 0 and then exactly the multiples of
\* page_size below total_matches, once each, in increasing order, one request
\* at a time; it terminates whatever total_matches and page_size are; and when
\* the first request fails nothing more is requested, the result is empty and
\* the run fetches no detail page and writes nothing to the database.
C11_PaginationBoundedAndFirstFailureFatal ==
    /\ [](C11_RequestsInOrder /\ C11_FirstFailureEndsRun)
    /\ <>(fpc = "done")
    /\ (0 \in failedAt) ~> (mpc = "returned")

\* C11 witness: a finished pagination of three requests with pages of one doc.
C11_Witness ==
    /\ fpc = "done"
    /\ page_size = 1
    /\ total_matches = 3
    /\ requested = <<0, 1, 2>>
    /\ failedAt = {}

(***************************************************************************)
(* Properties of the webhook bridge                                        *)
(***************************************************************************)

\* the request was answered after every outbound call completed
AllCallsCompleted == wpc = "replied" /\ w_reply.code = 200

\* C12 as stated: for a non-empty flat JSON object whose outbound calls all
\* complete, one state update per key is sent, in key order, to the entity
\* sensor.<key>_ekstern with the key's value as state, and the answer is 200
\* with one (entity, status) pair per key.
C12_OneUpdatePerKey ==
    AllCallsCompleted =>
        /\ w_data.kind = "object"
        /\ Len(w_sent) = Len(w_data.items)
        /\ Len(w_reply.updated) = Len(w_data.items)
        /\ \A i \in 1..Len(w_data.items) :
              /\ AddressedEntity(w_sent[i].url) = EntityId(w_data.items[i].key)
              /\ w_sent[i].state = w_data.items[i].value
              /\ w_reply.updated[i][1] = EntityId(w_data.items[i].key)

\* C12 for keys without "#", "?" or "/": the update reaches the named entity.
C12_OneUpdatePerPlainKey ==
    AllCallsCompleted =>
        /\ w_data.kind = "object"
        /\ Len(w_sent) = Len(w_data.items)
        /\ Len(w_reply.updated) = Len(w_data.items)
        /\ \A i \in 1..Len(w_data.items) :
              /\ w_sent[i].url = StateUrl(EntityId(w_data.items[i].key))
              /\ w_sent[i].state = w_data.items[i].value
              /\ w_reply.updated[i][1] = EntityId(w_data.items[i].key)
              /\ (\A j \in 1..Len(w_data.items[i].key) :
                     w_data.items[i].key[j] \notin {"#", "?", "/"})
                   => AddressedEntity(w_sent[i].url) = EntityId(w_data.items[i].key)

(***************************************************************************)
(* Properties of the PDF bridge                                            *)
(***************************************************************************)

\* the week numbers a text offers: the one or two digits that follow some
\* "uke" (first letter in heads) and any spaces after it
UkeNumbers(s, heads) ==
    {g \in {SubSeq(s, a, b) : a \in 1..Len(s), b \in 1..Len(s)} :
        \E i \in 1..Len(s), j \in 1..Len(s) :
            /\ i + 3 <= j
            /\ s[i] \in heads /\ s[i + 1] = "k" /\ s[i + 2] = "e"
            /\ \A k \in (i + 3)..(j - 1) : s[k] = " "
            /\ s[j] \in Digits
            /\ g = SubSeq(s, j, IF j < Len(s) /\ s[j + 1] \in Digits THEN j + 1 ELSE j)}

HasDigit(s) == \E i \in 1..Len(s) : s[i] \in Digits

\* the digits of s in order, without leading zeros
DigitsOf(s) ==
    LET ds == SelectSeq(s, LAMBDA c : c \in Digits)
        nz == {i \in 1..Len(ds) : ds[i] # "0"}
    IN  IF nz = {} THEN <<"0">>
        ELSE SubSeq(ds, CHOOSE i \in nz : \A k \in nz : i <= k, Len(ds))

\* the tables that offer a week number
TablesWithWeek == {t \in 1..Len(wk_tables) : UkeNumbers(wk_tables[t], {"U", "u"}) # {}}

\* C13: the week is taken from the first of these that yields one: "uke" and
\* digits in the file name, any digits in the file name, "Uke NN" in the PDF
\* text, "Uke NN" in the tables, else "0"; so a file name with "uke5" gives
\* "5" whatever the text says, and the text counts only without file-name digits.
C13_WeekByPriority ==
    kpc = "done" =>
        LET filename == LowerStr(wk_name)
            inName == UkeNumbers(filename, {"u"})
            inText == UkeNumbers(wk_text, {"U", "u"})
        IN  /\ inName # {} => wk_result \in inName
            /\ (inName = {} /\ HasDigit(wk_name)) => wk_result = DigitsOf(wk_name)
            /\ (~HasDigit(wk_name) /\ inText # {}) => wk_result \in inText
            /\ (~HasDigit(wk_name) /\ inText = {} /\ TablesWithWeek # {}) =>
                  wk_result \in UkeNumbers(
                      wk_tables[CHOOSE t \in TablesWithWeek :
                                   \A u \in TablesWithWeek : t <= u], {"U", "u"})
            /\ (~HasDigit(wk_name) /\ inText = {} /\ TablesWithWeek = {}) =>
                  wk_result = <<"0">>
            /\ inName = {<<"5">>} => wk_result = <<"5">>

\* C13 witness: the file name says uke5, the text says Uke 12, the week is 5.
C13_Witness ==
    /\ kpc = "done"
    /\ wk_name = <<"U", "k", "e", "5">>
    /\ wk_text = <<"U", "k", "e", " ", "1", "2">>
    /\ wk_result = <<"5">>

\* the weekday labels of the table
Present(day) == RowsOf(df, day) # {}

Entry(out, day) == IF day \in DOMAIN out THEN out[day] ELSE <<>>

\* the non-blank cells of the rows S, top to bottom
CellsOfRows(S) ==
    LET nonblank == {r \in S : df[r].cell \notin {<<>>, <<" ">>}}
        rank(r) == Cardinality({q \in nonblank : q <= r})
    IN  [k \in 1..Cardinality(nonblank) |->
            df[CHOOSE r \in nonblank : rank(r) = k].cell]

\* the rows of weekday i as described: from the row before its label (the
\* label row itself when it is the first row) to two rows before the next
\* label, to the last row for Friday
DayRows(i) ==
    {r \in DOMAIN df :
        /\ r >= IndexMin(df, WEEKDAYS[i]) - 1
        /\ i < Len(WEEKDAYS) => r <= IndexMin(df, WEEKDAYS[i + 1]) - 2}

SlicesAsDescribed ==
    /\ \A i \in 1..Len(WEEKDAYS) : Entry(output, WEEKDAYS[i]) = CellsOfRows(DayRows(i))
    /\ \A i, j \in 1..Len(WEEKDAYS) : i # j => DayRows(i) \cap DayRows(j) = {}
    /\ \A i, j \in 1..Len(WEEKDAYS) :
          i # j => \A a \in 1..Len(Entry(output, WEEKDAYS[i])),
                      b \in 1..Len(Entry(output, WEEKDAYS[j])) :
                        Entry(output, WEEKDAYS[i])[a] # Entry(output, WEEKDAYS[j])[b]

AllFivePresent == \A i \in 1..Len(WEEKDAYS) : Present(WEEKDAYS[i])

\* C14 as stated: with all five labels in order, each weekday gets the
\* non-blank cells from the row before its label to two rows before the next
\* label (to the last row for Friday), the ranges are disjoint and no cell is
\* under two weekdays, wherever the Monday label stands, row 0 included.
C14_SlicesForEveryMondayRow ==
    (qpc = "done" /\ AllFivePresent) => SlicesAsDescribed

\* C14 with the Monday label below the first row.
C14_SlicesBelowFirstRow ==
    (qpc = "done" /\ AllFivePresent /\ IndexMin(df, "Mandag") >= 1) => SlicesAsDescribed

\* C15: a weekday whose label is not in the table has no entry in the result.
C15_NoEntryForMissingDay ==
    qpc = "done" =>
        \A i \in 1..Len(WEEKDAYS) : ~Present(WEEKDAYS[i]) => WEEKDAYS[i] \notin DOMAIN output

\* C15 witness: no Onsdag label, and the four other weekdays have entries.
C15_Witness ==
    /\ qpc = "done"
    /\ ~Present("Onsdag")
    /\ DOMAIN output = {"Mandag", "Tirsdag", "Torsdag", "Fredag"}

\* C16 as stated: the task list of a weekday holds no cell from a row at or
\* after the label row of a later weekday that is present, also when the
\* weekday right after it is missing.
C16_NoCellOfLaterDay ==
    qpc = "done" =>
        \A i, j \in 1..Len(WEEKDAYS) :
            (i < j /\ Present(WEEKDAYS[i]) /\ Present(WEEKDAYS[j])) =>
                \A a \in 1..Len(Entry(output, WEEKDAYS[i])) :
                    Entry(output, WEEKDAYS[i])[a][2] < IndexMin(df, WEEKDAYS[j])

\* C16 for a weekday whose label is below the first row and whose next
\* weekday is present.
C16_NoCellOfLaterDayWhenNextPresent ==
    qpc = "done" =>
        \A i, j \in 1..Len(WEEKDAYS) :
            (/\ i < j /\ Present(WEEKDAYS[i]) /\ Present(WEEKDAYS[j])
             /\ Present(WEEKDAYS[i + 1]) /\ IndexMin(df, WEEKDAYS[i]) >= 1) =>
                \A a \in 1..Len(Entry(output, WEEKDAYS[i])) :
                    Entry(output, WEEKDAYS[i])[a][2] < IndexMin(df, WEEKDAYS[j])

\* C17: the info attribute is never longer than MAX_INFO_LENGTH; it is the
\* extra text when that has at most MAX_INFO_LENGTH characters (and there is
\* no info attribute when there is no extra text); info_full_available is
\* true exactly when the extra text is longer than MAX_INFO_LENGTH.
C17_InfoWithinLimit ==
    upc = "done" =>
        /\ info # NoneVal => Len(info) <= MAX_INFO_LENGTH
        /\ (extra_text # <<>> /\ Len(extra_text) <= MAX_INFO_LENGTH) => info = extra_text
        /\ extra_text = <<>> => info = NoneVal
        /\ info_full_available <=> Len(extra_text) > MAX_INFO_LENGTH

\* C17 witness: an extra text one character over the limit was cut down, at a
\* blank, and flagged.
C17_Witness ==
    /\ upc = "done"
    /\ Len(extra_text) = MAX_INFO_LENGTH + 1
    /\ info # NoneVal /\ Len(info) < MAX_INFO_LENGTH - 3
    /\ info_full_available

\* the extra info a reader is shown for a child belongs to the PDF processed
\* last: its text, or nothing when that PDF had none
ShowsLastPdf(child, shown) ==
    \/ shown = last_extra[child]
    \/ last_extra[child] = <<>> /\ shown = NoneVal

\* C18: once a PDF has been processed for a child, the child's info file
\* holds the extra info of the PDF processed last, and neither GET
\* /info/<child> nor the ingress page shows the extra info of an earlier PDF.
C18_InfoFileOfLastPdf ==
    ipc = "serving" =>
        \A child \in ChildNames :
            last_extra[child] # NoneVal =>
                /\ ShowsLastPdf(child, info_file[child])
                /\ get_info(child) \in {<<404>>, <<200, last_extra[child]>>}
                /\ \A reachable \in BOOLEAN :
                      ShowsLastPdf(child, get_child_data(child, reachable))

\* C18, for PDFs that have trailing text: the info file holds that text in
\* full and both readers show it.
C18_InfoFileOfLastPdfWithText ==
    ipc = "serving" =>
        \A child \in ChildNames :
            (last_extra[child] # NoneVal /\ last_extra[child] # <<>>) =>
                /\ info_file[child] = last_extra[child]
                /\ get_info(child) = <<200, last_extra[child]>>
                /\ \A reachable \in BOOLEAN :
                      get_child_data(child, reachable) = last_extra[child]

\* the restore of a child's sensor failed: no file, a file that cannot be
\* read or parsed, or a push that was refused or did not get through
RestoreFailed(child) ==
    \/ state_file0[child] # "payload"
    \/ restore_status[child] \notin Accepted

\* a child with a readable stored payload that Home Assistant accepts is
\* restored from it and its PDF is not processed; a PDF is processed again
\* only after a failed restore and when it exists
RestoreBeforeReprocess ==
    \A child \in ChildNames :
        /\ (state_file0[child] = "payload" /\ restore_status[child] \in Accepted)
              => handled[child] = "restored"
        /\ handled[child] = "restored" =>
              /\ ~RestoreFailed(child)
              /\ \E i \in 1..Len(s_pushed) : s_pushed[i] = <<child, "stored payload">>
        /\ handled[child] = "reprocessed" =>
              RestoreFailed(child) /\ pdf_file[child] # "missing"

\* C19: at startup a child whose stored payload Home Assistant accepts is
\* restored without reprocessing, a PDF is reprocessed only after a failed
\* restore and when it exists, and whatever fails for one child, the
\* children after it are handled: the loop is never left by an exception and
\* at its end every child has been handled.
C19_EveryChildHandled ==
    /\ spc # "off" => RestoreBeforeReprocess
    /\ spc # "crashed"
    /\ spc = "serving" => \A child \in ChildNames : handled[child] # "not yet"

\* C19, the part about restoring before reprocessing alone.
C19_RestoreBeforeReprocess ==
    /\ spc # "off" => RestoreBeforeReprocess
    /\ spc = "serving" => \A child \in ChildNames : handled[child] # "not yet"

\* C19, with a sensor file that is UTF-8 and a PDF whose table has three
\* columns or none for every child: the loop reaches the last child.
C19_HandledWhenNothingRaises ==
    (\A child \in ChildNames :
        state_file0[child] # "not utf-8" /\ pdf_file[child] # "two columns")
    => spc # "crashed"

\* the current price is at or above the highest recorded price (or no price
\* is recorded)
AtOrAbovePeak(row) == Falsy(row.HoyestePris) \/ row.Pris >= row.HoyestePris

\* C20: a listing without recorded price changes scores its number of days;
\* whenever the current price is at or above the highest recorded price the
\* price-drop term is 0, and it is never negative, and the score is
\* 5 * changes + days.
C20_ScoreWithoutDrop ==
    (gpc = "done" /\ g_result # <<>>) =>
        /\ g_row.AntallEndringer = 0 => g_result[1].KjopsScore = g_row.dager
        /\ PrisfallTeller(Hoyeste(g_row), parse_price(g_row.Pris)) >= 0
        /\ AtOrAbovePeak(g_row) =>
              /\ PrisfallTeller(Hoyeste(g_row), parse_price(g_row.Pris)) = 0
              /\ g_result[1].KjopsScore = 5 * g_row.AntallEndringer + g_row.dager

\* C20 witness: a listing priced above its recorded peak, with two recorded
\* changes and three days, scores 13.
C20_Witness ==
    /\ gpc = "done" /\ g_result # <<>>
    /\ g_row.HoyestePris # Null /\ g_row.Pris > g_row.HoyestePris
    /\ g_row.AntallEndringer = 2 /\ g_row.dager = 3
    /\ g_result[1].KjopsScore = 13

\* threads inside a run of the scraper
Running == {t \in Threads : InRun(tpc[t])}

\* C21: two calls can pass the guard together and run the scraper at the same
\* time, after which the flag can read False while a run is in progress; this
\* happens only after two calls were between the read and the write of the
\* flag together: short of that, runs do not overlap and the flag is True
\* throughout a run, and a call that reads the flag as True does not run.
C21_OverlapOnlyByRace ==
    tpc # <<>> =>
        /\ Cardinality(Running) > 1 => raced
        /\ (Running # {} /\ ~scraper_status.running) => raced

\* C21 witness: two runs in progress at once.
C21_Witness ==
    /\ tpc # <<>>
    /\ \E t \in Threads, u \in Threads : t # u /\ tpc[t] = "run" /\ tpc[u] = "run"

\* C21, second witness: the first run has ended and the flag reads False
\* while the other run is in progress.
C21_WitnessFlagFalse ==
    /\ tpc # <<>>
    /\ ~scraper_status.running
    /\ \E t \in Threads, u \in Threads :
          /\ t # u
          /\ tpc[t] = "run"
          /\ tpc[u] = "idle" /\ t_outcome[u] # "none"

\* C24: a call that has set the flag sets it back to False when it ends,
\* however the scraper ended, so the flag is True only while a run is in
\* progress and does not stay True; a call that returns early leaves
\* scraper_status as it is.
C24_FlagAlwaysReset ==
    /\ [](scraper_status.running => Running # {})
    /\ [][\A t \in Threads :
            (tpc[t] = "finally" /\ tpc'[t] # "finally") => ~scraper_status'.running]_vars
    /\ [][\A t \in Threads :
            (tpc[t] = "call" /\ tpc'[t] = "idle") => scraper_status' = scraper_status]_vars
    /\ (scraper_status.running ~> ~scraper_status.running)

\* C24 witness: a run whose scraper raised has ended and the flag is False,
\* and a call has returned early.
C24_Witness ==
    /\ tpc # <<>>
    /\ ~scraper_status.running
    /\ \E t \in Threads : tpc[t] \in {"idle", "dead"} /\ t_outcome[t] \in {"timeout", "SystemExit"}
    /\ \E t \in Threads : tpc[t] = "idle" /\ t_outcome[t] = "none"
    /\ calls = MaxCalls

\* what the end of a run leaves in last_run and error, when no other run
\* was in progress: a run that raised has set error to its text
RunRecorded(raising) ==
    \A t \in Threads :
        (~raced /\ tpc[t] = "finally") =>
            /\ t_outcome[t] = "returned" =>
                  /\ scraper_status.error = "None"
                  /\ scraper_status.last_run = successes
            /\ t_outcome[t] \in raising => scraper_status.error = t_outcome[t]

\* last_run is changed only by a run that returned, error is cleared only by
\* such a run, a run that sets error leaves last_run alone, and /api/status
\* answers with the current values
StatusSteps ==
    /\ scraper_status'.last_run # scraper_status.last_run =>
          \E t \in Threads : tpc[t] = "returned" /\ t_outcome[t] = "returned"
    /\ (scraper_status.error # "None" /\ scraper_status'.error = "None") =>
          \E t \in Threads : tpc[t] = "clear" /\ t_outcome[t] = "returned"
    /\ \A t \in Threads :
          (tpc[t] = "raised" /\ tpc'[t] # "raised") =>
              /\ scraper_status'.error = t_outcome[t]
              /\ scraper_status'.last_run = scraper_status.last_run
    /\ api_reply' # api_reply => api_reply' = <<scraper_status>>

\* C25: last_run is changed only by a run that completes without raising,
\* which also clears error; a run that raises sets error to the exception
\* text and leaves last_run; the error stays in /api/status until a run
\* succeeds.
C25_RaisingRunSetsError ==
    [](tpc # <<>> => RunRecorded(Outcomes \ {"returned"})) /\ [][StatusSteps]_vars

\* C25, for runs that raise an Exception (and not SystemExit).
C25_ExceptionSetsError ==
    [](tpc # <<>> => RunRecorded(ExceptionTexts)) /\ [][StatusSteps]_vars

\* the listing IDs that have a row in a bobil table
StoredIds(table) == {row.Finnkode : row \in table}

\* C22: at every point of a run of bobil.py, every row of prisendringer has
\* the ID of a listing with a row in bobil, and that listing was stored
\* before the run began: no price row is written for a listing first seen in
\* the run.
C22_PriceRowHasListing ==
    \A i \in 1..Len(prisendringer) :
        /\ prisendringer[i].Finnkode \in StoredIds(bobil)
        /\ prisendringer[i].Finnkode \in StoredIds(bobil0)

\* C22 witness: in one run a price change was logged for a stored listing
\* and a listing not stored before was inserted.
C22_Witness ==
    /\ lpc \in {"compare", "done"}
    /\ Len(prisendringer) > 0
    /\ StoredIds(bobil) # StoredIds(bobil0)

\* C23: in a live run of update_database, once a record's upsert has been
\* executed, a failure at a later record (here: its SELECT raises) does not
\* undo it: the rows of the records processed before the failure are stored.
C23_UpsertSurvivesLaterFailure ==
    (dpc = "done" /\ ~dry_run /\ aborted /\ idx <= Len(ads)) =>
        \A i \in 1..Len(verdicts) :
            verdicts[i].written =>
                NewValues(ads[i], normalize_and_format_price(ads[i].Pris, FALSE)) \in bobil

\* C23 for bobil.py, where update_bobil_table commits on a connection of its
\* own: no step of compare_prices_and_save, failing or not, changes the row
\* of a record processed earlier in the run.
C23_UpsertSurvivesLaterFailureLegacy ==
    [][lpc = "compare" =>
          \A j \in 1..(l_idx - 1) :
              SelectRow(bobil', l_ads[j].Finnkode) = SelectRow(bobil, l_ads[j].Finnkode)]_vars

\* the updates sent are those of the first n keys, in key order
SentForFirstKeys(n) ==
    /\ Len(w_sent) = n
    /\ \A i \in 1..n :
          /\ w_sent[i].url = StateUrl(EntityId(w_data.items[i].key))
          /\ w_sent[i].state = w_data.items[i].value

\* C29: the updates sent are always those of a prefix of the body's keys;
\* when the call for key k raises the answer is 500, the updates of keys
\* 1..k-1 have been sent and stay sent, and nothing is sent for a key after
\* k (the update of key k itself may or may not have arrived); the answer is
\* 200 only when the call of every key completed.
C29_PrefixOfKeysUpdated ==
    /\ wpc \in {"loop", "replied"} /\ w_data.kind = "object" =>
          \E n \in 0..Len(w_data.items) : SentForFirstKeys(n)
    /\ (wpc = "replied" /\ w_data.kind = "object" /\ w_reply.code = 500) =>
          /\ w_idx <= Len(w_data.items)
          /\ Len(w_responses) = w_idx - 1
          /\ SentForFirstKeys(w_idx - 1) \/ SentForFirstKeys(w_idx)
    /\ (wpc = "replied" /\ w_reply.code = 200) =>
          /\ Len(w_responses) = Len(w_data.items)
          /\ SentForFirstKeys(Len(w_data.items))

\* C29 witness: two keys, the call for the first raised before it was sent:
\* the answer is 500 and nothing was sent for the second key either.
C29_Witness ==
    /\ wpc = "replied"
    /\ w_reply.code = 500
    /\ w_data.kind = "object" /\ Len(w_data.items) = 2
    /\ w_idx = 1
    /\ w_sent = <<>>

\* C29, second witness: the call for the second key raised after the update
\* of the first had been sent.
C29_WitnessSecondKey ==
    /\ wpc = "replied"
    /\ w_reply.code = 500
    /\ w_data.kind = "object" /\ Len(w_data.items) = 2
    /\ w_idx = 2
    /\ Len(w_sent) >= 1 /\ Len(w_responses) = 1

(***************************************************************************)
(* Properties of upload_pdf and process_existing (ukenytt.py)              *)
(***************************************************************************)

\* the files of the children
StoredFiles == <<pdf_store, name_store, info_store, sensor_store>>

\* a step that handles a request to POST /upload
IsUploadStep == posts' = posts + 1 /\ u_kind' \in BodyKinds

WrongKey(key, query, header) ==
    key # "" /\ (IF query \in {NoKey, ""} THEN header ELSE query) # key

\* the reasons an upload is rejected for
UploadInvalid(key, query, header, child, kind, name, body) ==
    \/ WrongKey(key, query, header)
    \/ child = ""
    \/ ChildLower(child) \notin ChildNames
    \/ kind = "none"
    \/ kind = "multipart" /\ name = <<>>
    \/ body.size > MAX_PDF_SIZE
    \/ ~body.magic

\* the answers of the validation of upload_pdf
Rejections ==
    {"401", "400 child missing", "400 unknown child", "400 no file",
     "400 empty filename", "400 too large", "400 not a PDF"}

\* C27: an upload that fails one of the checks (API key, child, file part or
\* PDF content type, file name, size, %PDF) is answered 401 or 400, leaves
\* the stored PDF, file name, info file and sensor JSON as they were and
\* sends nothing to Home Assistant; a step that writes a file has passed
\* them all.
C27_RejectedUploadWritesNothing ==
    /\ [](\A keys \in KeysSent, child \in ChildParams, req \in UploadRequests :
             UploadInvalid(api_key, keys[1], keys[2], child, req[1], req[2], req[3])
                 <=> upload_validation(api_key, keys[1], keys[2], child,
                                       req[1], req[2], req[3]) \in Rejections)
    /\ [][IsUploadStep
              => /\ u_reply' \in Rejections => UNCHANGED <<StoredFiles, ha_requests>>
                 /\ ~UNCHANGED <<StoredFiles, ha_requests>> => u_reply' \in {"200", "500"}]_vars

\* C27 witness: after a PDF of frida was stored and pushed, an upload that
\* does not start with %PDF is rejected.
C27_Witness ==
    /\ posts = 2 /\ u_reply = "400 not a PDF" /\ u_kind = "raw"
    /\ pdf_store["frida"] # NoPdf /\ sensor_store["frida"] # NoPayload
    /\ ha_requests = 1

\* C28: with an API key configured, a request to POST /upload or POST
\* /process is answered 401 exactly when the key it provides (the api_key
\* parameter, else the X-API-Key header) differs from the configured one,
\* whatever else is wrong with it, and then writes no file and sends nothing
\* to Home Assistant; with no key configured no request is answered 401.
C28_WrongKeyIs401 ==
    /\ [](\A keys \in KeysSent, child \in ChildParams :
             /\ \A req \in UploadRequests :
                    WrongKey(api_key, keys[1], keys[2])
                        <=> upload_validation(api_key, keys[1], keys[2], child,
                                              req[1], req[2], req[3]) = "401"
             /\ WrongKey(api_key, keys[1], keys[2])
                    <=> process_validation(api_key, keys[1], keys[2], child) = "401")
    /\ [][u_reply' = "401"
              => api_key # "" /\ UNCHANGED <<StoredFiles, ha_requests>>]_vars

\* C28 witness: with a key configured and a PDF of frida stored, a request
\* to /process is answered 401.
C28_Witness ==
    /\ api_key # "" /\ u_reply = "401" /\ u_kind = "process"
    /\ pdf_store["frida"] # NoPdf /\ ha_requests = 1

\* the week of the file name stored for a child, of the path of its PDF
\* when none is stored
StoredNameWeek(c, text) ==
    IF name_store[c] # NoneVal /\ StripSpaces(name_store[c]) # <<>>
    THEN extract_week_number(PathStem(StripSpaces(name_store[c])), <<>>, text)
    ELSE extract_week_number(ChildStem(c), <<>>, text)

\* the children the last request was about
LastChildren == IF u_child' = "all" THEN ChildNames ELSE {u_child'}

\* C30: the week pushed comes from the file name of the current upload when
\* it has one, else from the file name stored by an earlier multipart upload
\* of the child, else from the path of the stored PDF; a raw-body upload
\* keeps the stored file name, so after a multipart upload of uke5.pdf it is
\* pushed as week 5 whatever the new PDF says.
C30_WeekFromStoredName ==
    [][posts' = posts + 1 /\ u_reply' = "200"
          => \A c \in LastChildren :
                 /\ u_kind' = "multipart"
                        => sensor_store'[c].state =
                               DigitsValue(extract_week_number(PathStem(name_store'[c]),
                                               <<>>, pdf_store'[c].text))
                 /\ u_kind' = "raw"
                        => /\ name_store'[c] = name_store[c]
                           /\ sensor_store'[c].state =
                                  DigitsValue(StoredNameWeek(c, pdf_store'[c].text))
                           /\ name_store[c] = <<"u", "k", "e", "5", ".", "p", "d", "f">>
                                  => sensor_store'[c].state = 5
                 /\ u_kind' = "process"
                        => sensor_store'[c].state =
                               DigitsValue(StoredNameWeek(c, pdf_store[c].text))]_vars

\* C30 witness: after a multipart upload of uke5.pdf a raw body whose text
\* says week 12 was uploaded for frida and pushed as week 5.
C30_Witness ==
    /\ posts = 2 /\ ha_requests = 2 /\ u_kind = "raw" /\ u_reply = "200"
    /\ name_store["frida"] = <<"u", "k", "e", "5", ".", "p", "d", "f">>
    /\ pdf_store["frida"].text = <<"U", "k", "e", " ", "1", "2">>
    /\ sensor_store["frida"].state = 5
    /\ sensor_store["oskar"] = NoPayload

====
